---- MODULE Spec2Model ----
(***************************************************************************)
(* benchmon: the startup report of the host's running processes.           *)
(*                                                                         *)
(* main polls heim's process stream through get_process_info and collects  *)
(* the results with try_collect; log_report builds a ProcessTree from the  *)
(* collected vector (ProcessTree::from) and logs it depth first            *)
(* (ProcessTree::log / log_subtree).                                       *)
(***************************************************************************)
EXTENDS Integers, Sequences, FiniteSets, TLC

(* Largest pid of the model, and the longest vector of collected results. *)
MaxPid == 2
MaxBatch == 3

(* Largest pid of the streams on which the order of the report is checked. *)
MaxTreePid == 3

(* The pid that is the parent of the top-most processes and is no process
   itself (PID 0 on Linux). *)
TopOfTreePid == 0

(* How many times the caller of SpecTwice logs the tree. *)
MaxReports == 2

(* Logical CPUs with a frequency range of their own, and frequencies a range
   is made of, in SpecCpu. *)
MaxCpus == 3
MaxFreq == 1

(* The largest value of a statistics counter, the u64 arithmetic of the
   counters being scaled down to arithmetic modulo MaxCount + 1, and the
   number of operations called on a Monitor. *)
MaxCount == 1
MaxCalls == 2

(* Nic entries in the list given to network::startup_report. *)
MaxNics == 2

(* Base-1000 digits of a quantity of bytes given to display_information. *)
MaxLimbs == 6

(* Pids that heim enumerates, and pids a parent_pid query can answer. *)
EnumPids == 1..MaxPid
ParentPids == {TopOfTreePid} \cup EnumPids

VARIABLES
    pc,         \* position of main: "collect", "from", "log", "done", "fatal", "panic"
    polled,     \* what get_process_info returned for each stream item so far
    processes,  \* the Vec try_collect has accumulated
    idx,        \* position of the `for` loop of ProcessTree::from in processes
    nodes,      \* ProcessTree.nodes: pid -> [process_info, children]
    roots,      \* ProcessTree.roots
    rootsTodo,  \* roots the loop of ProcessTree::log has not visited yet
    stack,      \* active log_subtree calls, innermost last
    events,     \* records handed to the logger, in order
    result,     \* how main ended: "running", "Ok", "Err", or a panic message
    probed,     \* the enumeration_result of the last get_process_info call,
                \* NoCall before the first
    reports,    \* the node events of each completed ProcessTree::log call
    cpu,        \* a call of cpu::startup_report: arguments, locals, records logged
    monitor,    \* a cpu::Monitor and what its operations were given and returned
    network,    \* a call of network::startup_report: arguments, locals
    format      \* a call of display_information: argument and text written

(* The variables of the process report, and those of the other reports. *)
processVars == <<pc, polled, processes, idx, nodes, roots, rootsTodo, stack, events,
                 result, probed, reports>>
others == <<cpu, monitor, network, format>>

vars == <<pc, polled, processes, idx, nodes, roots, rootsTodo, stack, events, result,
          probed, reports, cpu, monitor, network, format>>

(* A report that is not under way. *)
Idle == [pc |-> "idle"]

-----------------------------------------------------------------------------
(* Result<T, E> values *)

Ok(v) == [ok |-> TRUE, val |-> v]
Err(e) == [ok |-> FALSE, err |-> e]

(* The fields of ProcessInfo, in the order get_info_struct! queries them. *)
FieldOrder == <<"parent_pid", "name", "exe", "command", "create_time">>
FieldNames == {FieldOrder[i] : i \in 1..Len(FieldOrder)}

(* ProcessInfoError *)
ProcessInfoError == {"AccessDenied", "NoSuchProcess", "ZombieProcess"}

(* Answers of one heim field query: a value or a ProcessError. *)
QueryErrors == {"AccessDenied", "NoSuchProcess", "ZombieProcess", "Load"}

(* AbortsOnDenied is the variant of Aborts, defined next, in which a denied
   query ends the function as well. *)
AbortsOnDenied(answer) == ~answer.ok

(* Whether a query answer ends get_process_info at once (the `return`s of
   get_info_field!). *)
Aborts(answer) == ~answer.ok /\ answer.err \in {"NoSuchProcess", "ZombieProcess", "Load"}

(* LastAbort is the variant of FirstAbort, defined next, in which every
   field is queried before the function returns on the last failure. *)
LastAbort(q) ==
    LET hits == {i \in 1..Len(FieldOrder) : Aborts(q[FieldOrder[i]])}
    IN  IF hits = {} THEN 0 ELSE CHOOSE i \in hits : \A j \in hits : i >= j

(* Index in FieldOrder of the first query that ends the function, 0 if none. *)
FirstAbort(q) ==
    LET hits == {i \in 1..Len(FieldOrder) : Aborts(q[FieldOrder[i]])}
    IN  IF hits = {} THEN 0 ELSE CHOOSE i \in hits : \A j \in hits : i <= j

(* get_info_field! on an answer that does not end the function. *)
get_info_field(answer) ==
    IF answer.ok THEN Ok(answer.val) ELSE Err("AccessDenied")

(* Variants of get_process_info, defined below: one that stores the Load
   failure of a field query as the outcome of the record. *)
get_process_info_load_as_outcome(er) ==
    IF er.enum = "Ok" THEN
        LET i == FirstAbort(er.q) IN
        IF i = 0 THEN
            Ok(<<er.pid, Ok([f \in FieldNames |-> get_info_field(er.q[f])])>>)
        ELSE Ok(<<er.pid, Err(er.q[FieldOrder[i]].err)>>)
    ELSE IF er.enum = "Load" THEN Err("Load")
    ELSE Ok(<<er.pid, Err(er.enum)>>)

(* One that fails the whole call on a NoSuchProcess or ZombieProcess answer
   of a field query. *)
get_process_info_field_fatal(er) ==
    IF er.enum = "Ok" THEN
        LET i == FirstAbort(er.q) IN
        IF i = 0 THEN
            Ok(<<er.pid, Ok([f \in FieldNames |-> get_info_field(er.q[f])])>>)
        ELSE Err(er.q[FieldOrder[i]].err)
    ELSE IF er.enum = "Load" THEN Err("Load")
    ELSE Ok(<<er.pid, Err(er.enum)>>)

(* One that fails the whole call when the enumeration is denied access to
   the process. *)
get_process_info_denied_fatal(er) ==
    IF er.enum = "Ok" THEN
        LET i == FirstAbort(er.q) IN
        IF i = 0 THEN
            Ok(<<er.pid, Ok([f \in FieldNames |-> get_info_field(er.q[f])])>>)
        ELSE IF er.q[FieldOrder[i]].err = "Load" THEN Err("Load")
        ELSE Ok(<<er.pid, Err(er.q[FieldOrder[i]].err)>>)
    ELSE IF er.enum \in {"Load", "AccessDenied"} THEN Err(er.enum)
    ELSE Ok(<<er.pid, Err(er.enum)>>)

(* get_process_info: enumeration_result is [enum, pid, q], enum the variant
   of Result<Process, ProcessError> ("Ok" or the error), q the answers the
   field queries would give. Returns heim::Result<(Pid, Result<ProcessInfo,
   ProcessInfoError>)>. *)
get_process_info(er) ==
    IF er.enum = "Ok" THEN
        LET i == FirstAbort(er.q) IN
        IF i = 0 THEN
            Ok(<<er.pid, Ok([f \in FieldNames |-> get_info_field(er.q[f])])>>)
        ELSE IF er.q[FieldOrder[i]].err = "Load" THEN Err("Load")
        ELSE Ok(<<er.pid, Err(er.q[FieldOrder[i]].err)>>)
    ELSE IF er.enum = "Load" THEN Err("Load")
    ELSE Ok(<<er.pid, Err(er.enum)>>)

(* The field queries that get_process_info makes, in the order it makes
   them: none if the process was not enumerated, and none after a query
   that ends the function. *)
Queried(er) ==
    IF er.enum # "Ok" THEN <<>>
    ELSE LET i == FirstAbort(er.q) IN
         IF i = 0 THEN FieldOrder ELSE SubSeq(FieldOrder, 1, i)

(* The enumeration results of the model: every variant of the enumeration,
   and for an enumerated process every answer of the parent_pid query; the
   other four queries answer with a value. *)
Answered(parent) ==
    [f \in FieldNames |-> IF f = "parent_pid" THEN parent ELSE Ok(f)]

ParentAnswers == {Ok(p) : p \in ParentPids} \cup {Err(e) : e \in QueryErrors}

EnumerationResults ==
    {[enum |-> "Ok", pid |-> p, q |-> Answered(a)] : p \in EnumPids, a \in ParentAnswers}
    \cup {[enum |-> e, pid |-> p, q |-> Answered(Ok(0))] :
            e \in {"AccessDenied", "NoSuchProcess", "ZombieProcess"}, p \in EnumPids}
    \cup {[enum |-> "Load", pid |-> 0, q |-> Answered(Ok(0))]}

(* The enumeration results of SpecFields: every variant of the enumeration,
   and for an enumerated process every answer of each of the five queries,
   an empty executable path and an empty command line among the values. *)
FieldValues(f) ==
    IF f = "parent_pid" THEN {TopOfTreePid}
    ELSE IF f \in {"exe", "command"} THEN {f, ""}
    ELSE {f}

FieldAnswers(f) == {Ok(v) : v \in FieldValues(f)} \cup {Err(e) : e \in QueryErrors}

FieldQueries ==
    {[parent_pid |-> a, name |-> b, exe |-> c, command |-> d, create_time |-> e] :
        a \in FieldAnswers("parent_pid"), b \in FieldAnswers("name"),
        c \in FieldAnswers("exe"), d \in FieldAnswers("command"),
        e \in FieldAnswers("create_time")}

FieldResults ==
    {[enum |-> "Ok", pid |-> p, q |-> q] : p \in EnumPids, q \in FieldQueries}
    \cup {[enum |-> e, pid |-> p, q |-> Answered(Ok(0))] :
            e \in {"AccessDenied", "NoSuchProcess", "ZombieProcess"}, p \in EnumPids}
    \cup {[enum |-> "Load", pid |-> 0, q |-> Answered(Ok(0))]}

-----------------------------------------------------------------------------
(* try_collect::<Vec<_>>: one more item of the stream. TryCollectSkipErr is
   the best-effort variant that drops a failed item. *)

TryCollectSkipErr(vec, item) ==
    IF item.ok THEN Ok(Append(vec, item.val)) ELSE Ok(vec)

TryCollect(vec, item) ==
    IF item.ok THEN Ok(Append(vec, item.val)) ELSE Err(item.err)

-----------------------------------------------------------------------------
(* ProcessTree::from *)

(* The node or_insert creates for a parent seen before its own record. *)
Placeholder == [process_info |-> Err("NoSuchProcess"), children |-> {}]

(* info.parent_pid when the record and the field are both Ok. *)
HasParent(process_info) == process_info.ok /\ process_info.val.parent_pid.ok

ParentOf(process_info) == process_info.val.parent_pid.val

(* Variants of RegisterChild: one that inserts the child only under a parent
   node it has just created, one that replaces the parent's children. *)
RegisterChildOnlyNew(tree, pid, process_info) ==
    IF ~HasParent(process_info) THEN [panic |-> "", nodes |-> tree]
    ELSE
        LET parent_pid == ParentOf(process_info) IN
        IF parent_pid \in DOMAIN tree THEN [panic |-> "", nodes |-> tree]
        ELSE [panic |-> "",
              nodes |-> (parent_pid :> [Placeholder EXCEPT !.children = {pid}]) @@ tree]

RegisterChildOverwrite(tree, pid, process_info) ==
    IF ~HasParent(process_info) THEN [panic |-> "", nodes |-> tree]
    ELSE
        LET parent_pid == ParentOf(process_info)
            entry == IF parent_pid \in DOMAIN tree THEN tree
                     ELSE (parent_pid :> Placeholder) @@ tree
            insert_result == pid \notin entry[parent_pid].children
        IN  IF ~insert_result
            THEN [panic |-> "Registered the same child twice!", nodes |-> tree]
            ELSE [panic |-> "",
                  nodes |-> [entry EXCEPT ![parent_pid].children = {pid}]]

(* Lines 50-64: register pid as a child of its parent. *)
RegisterChild(tree, pid, process_info) ==
    IF ~HasParent(process_info) THEN [panic |-> "", nodes |-> tree]
    ELSE
        LET parent_pid == ParentOf(process_info)
            entry == IF parent_pid \in DOMAIN tree THEN tree
                     ELSE (parent_pid :> Placeholder) @@ tree
            insert_result == pid \notin entry[parent_pid].children
        IN  IF ~insert_result
            THEN [panic |-> "Registered the same child twice!", nodes |-> tree]
            ELSE [panic |-> "",
                  nodes |-> [entry EXCEPT ![parent_pid].children = @ \cup {pid}]]

(* Variants of FillNode: one that replaces the whole node, one that keeps
   the info of an existing node, one without the assert!. *)
FillNodeDropChildren(tree, pid, process_info) ==
    IF pid \notin DOMAIN tree
    THEN [panic |-> "",
          nodes |-> (pid :> [process_info |-> process_info, children |-> {}]) @@ tree]
    ELSE
        IF tree[pid].process_info # Err("NoSuchProcess")
        THEN [panic |-> "Invalid pre-existing process node info!", nodes |-> tree]
        ELSE [panic |-> "",
              nodes |-> [tree EXCEPT ![pid] =
                            [process_info |-> process_info, children |-> {}]]]

FillNodeKeepOld(tree, pid, process_info) ==
    IF pid \notin DOMAIN tree
    THEN [panic |-> "",
          nodes |-> (pid :> [process_info |-> process_info, children |-> {}]) @@ tree]
    ELSE
        IF tree[pid].process_info # Err("NoSuchProcess")
        THEN [panic |-> "Invalid pre-existing process node info!", nodes |-> tree]
        ELSE [panic |-> "", nodes |-> tree]

(* A variant that settles a node already there and inserts none. *)
FillNodeOnlyExisting(tree, pid, process_info) ==
    IF pid \notin DOMAIN tree
    THEN [panic |-> "", nodes |-> tree]
    ELSE
        IF tree[pid].process_info # Err("NoSuchProcess")
        THEN [panic |-> "Invalid pre-existing process node info!", nodes |-> tree]
        ELSE [panic |-> "", nodes |-> [tree EXCEPT ![pid].process_info = process_info]]

FillNodeNoCheck(tree, pid, process_info) ==
    IF pid \notin DOMAIN tree
    THEN [panic |-> "",
          nodes |-> (pid :> [process_info |-> process_info, children |-> {}]) @@ tree]
    ELSE [panic |-> "", nodes |-> [tree EXCEPT ![pid].process_info = process_info]]

(* Lines 67-90: fill the node of pid. *)
FillNode(tree, pid, process_info) ==
    IF pid \notin DOMAIN tree
    THEN [panic |-> "",
          nodes |-> (pid :> [process_info |-> process_info, children |-> {}]) @@ tree]
    ELSE
        LET old_process_info == tree[pid].process_info IN
        IF old_process_info # Err("NoSuchProcess")
        THEN [panic |-> "Invalid pre-existing process node info!", nodes |-> tree]
        ELSE [panic |-> "", nodes |-> [tree EXCEPT ![pid].process_info = process_info]]

(* One iteration of the loop over process_info_iter. *)
FromIteration(tree, item) ==
    LET registered == RegisterChild(tree, item[1], item[2]) IN
    IF registered.panic # "" THEN registered
    ELSE FillNode(registered.nodes, item[1], item[2])

(* Where the loop stands after the iteration on the i-th item: a failed
   assert! unwinds out of from, otherwise the loop goes on with the next. *)
FromStepResultContinue(tree, i, item) ==
    LET step == FromIteration(tree, item) IN
    IF step.panic # ""
    THEN [pc |-> "from", result |-> step.panic, nodes |-> tree, idx |-> i + 1]
    ELSE [pc |-> "from", result |-> "running", nodes |-> step.nodes, idx |-> i + 1]

FromStepResult(tree, i, item) ==
    LET step == FromIteration(tree, item) IN
    IF step.panic # ""
    THEN [pc |-> "panic", result |-> step.panic, nodes |-> tree, idx |-> i]
    ELSE [pc |-> "from", result |-> "running", nodes |-> step.nodes, idx |-> i + 1]

(* A variant of EnumerateRoots that looks at the record only. *)
EnumerateRootsErrOnly(tree) == {pid \in DOMAIN tree : ~tree[pid].process_info.ok}

(* Lines 99-110: the roots are the nodes with no known parent. *)
(* EnumerateRootsAll is the variant of EnumerateRoots, defined next, that
   makes every node a root. *)
EnumerateRootsAll(tree) == DOMAIN tree

EnumerateRoots(tree) == {pid \in DOMAIN tree : ~HasParent(tree[pid].process_info)}

EmptyTree == [pid \in {} |-> Placeholder]

(* ProcessTree::from as a whole, on a sequence of (pid, process_info):
   [panic, nodes, roots], panic the message of the assert! that failed. *)
RECURSIVE FillNodes(_, _)
FillNodes(tree, items) ==
    IF items = <<>> THEN [panic |-> "", nodes |-> tree]
    ELSE LET step == FromIteration(tree, Head(items)) IN
         IF step.panic # "" THEN step ELSE FillNodes(step.nodes, Tail(items))

From(process_info_iter) ==
    LET filled == FillNodes(EmptyTree, process_info_iter) IN
    IF filled.panic # ""
    THEN [panic |-> filled.panic, nodes |-> EmptyTree, roots |-> {}]
    ELSE [panic |-> "", nodes |-> filled.nodes, roots |-> EnumerateRoots(filled.nodes)]

-----------------------------------------------------------------------------
(* ProcessTree::log and log_subtree *)

(* Iteration in descending order. *)
RECURSIVE IterDescending(_)
IterDescending(set) ==
    IF set = {} THEN <<>>
    ELSE LET first == CHOOSE p \in set : \A q \in set : p >= q
         IN  <<first>> \o IterDescending(set \ {first})

(* Iteration on a BTreeSet<Pid>: ascending. *)
RECURSIVE Iter(_)
Iter(set) ==
    IF set = {} THEN <<>>
    ELSE LET first == CHOOSE p \in set : \A q \in set : p <= q
         IN  <<first>> \o Iter(set \ {first})

(* print_err, and the text logged for a field: an empty executable path or
   command line is logged as "None". *)
print_err(err) == "Unavailable (" \o err \o ")"

(* Display is what log_subtree shows of a field; DisplayDefault is the
   variant that shows a denied field as it shows an empty one. *)
DisplayDefault(name, field) ==
    IF ~field.ok THEN "None"
    ELSE IF name \in {"exe", "command"} /\ field.val = "" THEN "None"
    ELSE field.val

Display(name, field) ==
    IF ~field.ok THEN print_err(field.err)
    ELSE IF name \in {"exe", "command"} /\ field.val = "" THEN "None"
    ELSE field.val

(* The record log_subtree logs for a node: level, message, pid, the four
   displayed fields of an Ok record, and ctx, the "parent pid" values of the
   logger it is logged with (outermost first). *)
NoFields == [name |-> "", exe |-> "", command |-> "", create_time |-> ""]

(* NodeEventZombieDebug is the variant of NodeEvent, defined next, that logs
   a zombie at the level of a nonexistent process. *)
NodeEventZombieDebug(tree, current_pid, ctx) ==
    LET process_info == tree[current_pid].process_info
        base == [pid |-> current_pid, ctx |-> ctx]
    IN  IF process_info.ok THEN
            base @@ [level |-> "debug", msg |-> "Found a process",
                     fields |-> [f \in FieldNames \ {"parent_pid"} |->
                                    Display(f, process_info.val[f])]]
        ELSE IF process_info.err = "AccessDenied" THEN
            base @@ [level |-> "error",
                     msg |-> "Found a process, but access to its info was denied",
                     fields |-> NoFields]
        ELSE IF process_info.err = "NoSuchProcess" THEN
            base @@ [level |-> "debug",
                     msg |-> "Found a nonexistent process (it likely vanished, or isn't a real system process)",
                     fields |-> NoFields]
        ELSE
            base @@ [level |-> "debug",
                     msg |-> "Found a process in the zombie state",
                     fields |-> NoFields]

NodeEvent(tree, current_pid, ctx) ==
    LET process_info == tree[current_pid].process_info
        base == [pid |-> current_pid, ctx |-> ctx]
    IN  IF process_info.ok THEN
            base @@ [level |-> "debug", msg |-> "Found a process",
                     fields |-> [f \in FieldNames \ {"parent_pid"} |->
                                    Display(f, process_info.val[f])]]
        ELSE IF process_info.err = "AccessDenied" THEN
            base @@ [level |-> "error",
                     msg |-> "Found a process, but access to its info was denied",
                     fields |-> NoFields]
        ELSE IF process_info.err = "NoSuchProcess" THEN
            base @@ [level |-> "debug",
                     msg |-> "Found a nonexistent process (it likely vanished, or isn't a real system process)",
                     fields |-> NoFields]
        ELSE
            base @@ [level |-> "warn",
                     msg |-> "Found a process in the zombie state",
                     fields |-> NoFields]

(* The node table after log_subtree has looked up current_pid: the lookup
   borrows the node (&self.nodes[&current_pid]) and leaves the table as it
   is. Taken is the variant that moves the children out of the node. *)
Taken(tree, current_pid) == [tree EXCEPT ![current_pid].children = {}]

Borrowed(tree, current_pid) == tree

(* The first record of log_report. *)
Header == [pid |-> -1, ctx |-> <<>>, level |-> "debug",
           msg |-> "Processing process tree...", fields |-> NoFields]

(* Where in events the node events of the log call in progress start: after
   the header and the events of the calls already completed. *)
RECURSIVE TotalLen(_)
TotalLen(seqs) == IF seqs = <<>> THEN 0 ELSE Len(Head(seqs)) + TotalLen(Tail(seqs))

ReportStart(done) == Len(<<Header>>) + TotalLen(done) + 1

(* No get_process_info call to speak of. *)
NoCall == [enum |-> "None"]

-----------------------------------------------------------------------------

ProcessInit ==
    /\ pc = "collect"
    /\ polled = <<>>
    /\ processes = <<>>
    /\ idx = 0
    /\ nodes = EmptyTree
    /\ roots = {}
    /\ rootsTodo = <<>>
    /\ stack = <<>>
    /\ events = <<>>
    /\ result = "running"
    /\ probed = NoCall
    /\ reports = <<>>

Init ==
    /\ ProcessInit
    /\ cpu = Idle
    /\ monitor = Idle
    /\ network = Idle
    /\ format = Idle

(* The stream, of at most `limit` processes, yields one more, one of
   `results`, and get_process_info answers. *)
PollOf(results, limit) ==
    /\ pc = "collect"
    /\ Len(polled) < limit
    /\ \E er \in results :
        LET item == get_process_info(er)
            collected == TryCollect(processes, item)
        IN  /\ probed' = [enum |-> er.enum, pid |-> er.pid, q |-> er.q,
                           asked |-> Queried(er)]
            /\ polled' = Append(polled, item)
            /\ IF collected.ok
               THEN /\ processes' = collected.val
                    /\ UNCHANGED <<pc, result>>
               ELSE /\ pc' = "fatal"
                    /\ result' = "Err"
                    /\ UNCHANGED processes
    /\ UNCHANGED <<idx, nodes, roots, rootsTodo, stack, events, reports>>
    /\ UNCHANGED others

Poll == PollOf(EnumerationResults, MaxBatch)

(* The stream ends: processes.await? is Ok, and log_report starts: it logs
   that it is processing the tree, then ProcessTree::from begins with an empty
   tree. *)
StartReport ==
    /\ pc = "collect"
    /\ pc' = "from"
    /\ idx' = 1
    /\ nodes' = EmptyTree
    /\ events' = Append(events, Header)
    /\ UNCHANGED <<polled, processes, roots, rootsTodo, stack, result, probed, reports>>
    /\ UNCHANGED others

(* One iteration of the loop of ProcessTree::from; a failed assert! panics
   and the tree under construction is dropped. *)
FromStep ==
    /\ pc = "from"
    /\ idx <= Len(processes)
    /\ LET next == FromStepResult(nodes, idx, processes[idx]) IN
        /\ pc' = next.pc
        /\ result' = next.result
        /\ nodes' = next.nodes
        /\ idx' = next.idx
    /\ UNCHANGED <<polled, processes, roots, rootsTodo, stack, events, probed, reports>>
    /\ UNCHANGED others

(* The input is exhausted: the roots are enumerated, from returns the tree
   and ProcessTree::log starts iterating on the roots. *)
FromRoots ==
    /\ pc = "from"
    /\ idx > Len(processes)
    /\ roots' = EnumerateRoots(nodes)
    /\ rootsTodo' = Iter(roots')
    /\ pc' = "log"
    /\ UNCHANGED <<polled, processes, idx, nodes, stack, events, result, probed, reports>>
    /\ UNCHANGED others

(* The context of children_log = log.new(o!("parent pid" => current_pid)),
   the logger of the calls on the children, from the context of log.
   ChildLoggerSame is the variant that passes log on as it is. *)
ChildLoggerSame(ctx, current_pid) == ctx

ChildLogger(ctx, current_pid) == Append(ctx, current_pid)

(* EnterDeferred is the variant of Enter, defined next, in which the loop
   on the children of a node is run only after the caller has logged the
   siblings of the node. *)
EnterDeferred(callers, current_pid, ctx) ==
    IF current_pid \notin DOMAIN nodes
    THEN /\ pc' = "panic"
         /\ result' = "key not found"
         /\ UNCHANGED <<nodes, stack, events>>
    ELSE /\ events' = Append(events, NodeEvent(nodes, current_pid, ctx))
         /\ stack' = <<[pid |-> current_pid,
                        todo |-> Iter(nodes[current_pid].children),
                        ctx |-> ctx]>> \o callers
         /\ nodes' = Borrowed(nodes, current_pid)
         /\ UNCHANGED <<pc, result>>

(* log_subtree is entered for current_pid with a logger of context ctx, the
   calls in `callers` being active: the node is looked up (indexing panics on
   a missing key), its event is logged and the iteration on its children
   starts. *)
Enter(callers, current_pid, ctx) ==
    IF current_pid \notin DOMAIN nodes
    THEN /\ pc' = "panic"
         /\ result' = "key not found"
         /\ UNCHANGED <<nodes, stack, events>>
    ELSE /\ events' = Append(events, NodeEvent(nodes, current_pid, ctx))
         /\ stack' = Append(callers, [pid |-> current_pid,
                                      todo |-> Iter(nodes[current_pid].children),
                                      ctx |-> ctx])
         /\ nodes' = Borrowed(nodes, current_pid)
         /\ UNCHANGED <<pc, result>>

(* ProcessTree::log calls log_subtree on the next root. *)
LogRoot ==
    /\ pc = "log"
    /\ stack = <<>>
    /\ rootsTodo # <<>>
    /\ rootsTodo' = Tail(rootsTodo)
    /\ Enter(stack, Head(rootsTodo), <<>>)
    /\ UNCHANGED <<polled, processes, idx, roots, probed, reports>>
    /\ UNCHANGED others

(* The innermost log_subtree calls itself on its next child, with the logger
   extended by "parent pid" => current_pid. *)
LogChild ==
    /\ pc = "log"
    /\ stack # <<>>
    /\ LET top == stack[Len(stack)] IN
        /\ top.todo # <<>>
        /\ Enter([stack EXCEPT ![Len(stack)].todo = Tail(top.todo)],
                 Head(top.todo), ChildLogger(top.ctx, top.pid))
    /\ UNCHANGED <<polled, processes, idx, roots, rootsTodo, probed, reports>>
    /\ UNCHANGED others

(* The innermost log_subtree has no child left and returns. *)
LogReturn ==
    /\ pc = "log"
    /\ stack # <<>>
    /\ stack[Len(stack)].todo = <<>>
    /\ stack' = SubSeq(stack, 1, Len(stack) - 1)
    /\ UNCHANGED <<pc, polled, processes, idx, nodes, roots, rootsTodo, events, result,
                   probed, reports>>
    /\ UNCHANGED others

(* ProcessTree::log has visited every root: log_report and main return. *)
LogEnd ==
    /\ pc = "log"
    /\ stack = <<>>
    /\ rootsTodo = <<>>
    /\ pc' = "done"
    /\ result' = "Ok"
    /\ reports' = Append(reports, SubSeq(events, ReportStart(reports), Len(events)))
    /\ UNCHANGED <<polled, processes, idx, nodes, roots, rootsTodo, stack, events, probed>>
    /\ UNCHANGED others

Next ==
    \/ Poll
    \/ StartReport
    \/ FromStep
    \/ FromRoots
    \/ LogRoot
    \/ LogChild
    \/ LogReturn
    \/ LogEnd

Spec == Init /\ [][Next]_vars

(* A caller which, when ProcessTree::log has returned, calls it again on the
   same tree (log takes &self, so the tree is still there), MaxReports times
   in all. *)
LogAgain ==
    /\ pc = "done"
    /\ Len(reports) < MaxReports
    /\ pc' = "log"
    /\ rootsTodo' = Iter(roots)
    /\ UNCHANGED <<polled, processes, idx, nodes, roots, stack, events, result, probed,
                   reports>>
    /\ UNCHANGED others

NextTwice ==
    \/ Next
    \/ LogAgain

SpecTwice == Init /\ [][NextTwice]_vars

(* The program on a stream of one process whose five field queries each
   answer in every way. *)
PollFields == PollOf(FieldResults, 1)

NextFields ==
    \/ PollFields
    \/ StartReport
    \/ FromStep
    \/ FromRoots
    \/ LogRoot
    \/ LogChild
    \/ LogReturn
    \/ LogEnd

SpecFields == Init /\ [][NextFields]_vars

(* The program on a stream of at most three processes with pids up to
   MaxTreePid, each enumerated and with every answer of the parent_pid
   query: the trees have up to four nodes, so that a node can have two
   children of which one has children of its own. *)
TreeResults ==
    {[enum |-> "Ok", pid |-> p, q |-> Answered(a)] :
        p \in 1..MaxTreePid,
        a \in {Ok(pp) : pp \in 0..MaxTreePid} \cup {Err(e) : e \in QueryErrors}}

PollTree == PollOf(TreeResults, 3)

NextTree ==
    \/ PollTree
    \/ StartReport
    \/ FromStep
    \/ FromRoots
    \/ LogRoot
    \/ LogChild
    \/ LogReturn
    \/ LogEnd

SpecTree == Init /\ [][NextTree]_vars

-----------------------------------------------------------------------------
(* Vocabulary of the properties *)

(* ProcessTree::from has returned a tree (log may be running on it). *)
Returned == pc \in {"log", "done"}

(* from has just returned: nothing but the header is logged yet. *)
JustReturned == pc = "log" /\ events = <<Header>>

(* Pids and records of the collected batch. *)
PidAt(i) == processes[i][1]
InfoAt(i) == processes[i][2]
Indices == 1..Len(processes)
RecordsOf(pid) == {i \in Indices : PidAt(i) = pid}
NoDuplicatePid == \A i, j \in Indices : PidAt(i) = PidAt(j) => i = j

(* Records whose readable parent field names pid. *)
NamedBy(pid) == {i \in Indices : HasParent(InfoAt(i)) /\ ParentOf(InfoAt(i)) = pid}
NamedParents == {ParentOf(InfoAt(i)) : i \in {j \in Indices : HasParent(InfoAt(j))}}

(* Nodes whose children set contains pid. *)
ParentsOf(pid) == {p \in DOMAIN nodes : pid \in nodes[p].children}

(* The panics of ProcessTree::from. *)
IntegrityViolations ==
    {"Registered the same child twice!", "Invalid pre-existing process node info!",
     "Registered the same root twice!"}

(* The permutations of 1..n, and a sequence reordered by one. *)
Orders(n) == {f \in [1..n -> 1..n] : \A i, j \in 1..n : f[i] = f[j] => i = j}
Reordered(seq, f) == [i \in 1..Len(seq) |-> seq[f[i]]]

-----------------------------------------------------------------------------
(* C1. Order independence: when from returns a tree for a batch without a
   duplicate pid, from applied to every permutation of that batch returns
   the same roots and the same nodes (outcome and children of every node). *)
OrderIndependence ==
    (JustReturned /\ NoDuplicatePid) =>
        \A f \in Orders(Len(processes)) :
            From(Reordered(processes, f)) = [panic |-> "", nodes |-> nodes, roots |-> roots]

(* A batch in which a child arrives before its parent, whose own Ok record
   settles the placeholder. *)
OrderIndependenceWitness ==
    /\ JustReturned
    /\ NoDuplicatePid
    /\ \E i, j \in Indices :
        /\ i < j
        /\ HasParent(InfoAt(i))
        /\ ParentOf(InfoAt(i)) = PidAt(j)
        /\ InfoAt(j).ok

(* C2. Batch atomicity: once get_process_info has answered Err for any item
   of the stream, main has ended with that error, ProcessTree::from has not
   run (no node, no root, loop not started) and nothing is logged, however
   many results were collected before. *)
BatchAtomicity ==
    (\E i \in 1..Len(polled) : ~polled[i].ok) =>
        /\ pc = "fatal"
        /\ result = "Err"
        /\ events = <<>>
        /\ idx = 0
        /\ nodes = EmptyTree
        /\ roots = {}

(* The fatal failure comes after two results were collected. *)
BatchAtomicityWitness ==
    /\ pc = "fatal"
    /\ Len(processes) = 2
    /\ ~polled[Len(polled)].ok

(* C3, as stated: a node is a root iff its outcome is not Available, or its
   parent field is denied, or its parent field carries no value, that is
   names the top-of-tree pid 0 no process has (so that in Scenario A,
   {1 -> parent 0, 2 -> parent 1, 3 -> parent 1}, roots = {1}). *)
RootsIncludeTopProcesses ==
    Returned =>
        \A pid \in DOMAIN nodes :
            pid \in roots <=>
                \/ ~nodes[pid].process_info.ok
                \/ ~nodes[pid].process_info.val.parent_pid.ok
                \/ nodes[pid].process_info.val.parent_pid.val = TopOfTreePid

(* C3, amended: the roots are nodes, and a node is a root iff its outcome is
   not Available (an error of the record, or the placeholder of a pid that
   has no record) or it is Available with a denied parent field. A parent
   field always names a pid: a process whose parent is the top-of-tree pid
   is a child of that pid's placeholder node, which is the root. *)
RootsHaveNoKnownParent ==
    Returned =>
        /\ roots \subseteq DOMAIN nodes
        /\ \A pid \in DOMAIN nodes :
            pid \in roots <=>
                \/ ~nodes[pid].process_info.ok
                \/ ~nodes[pid].process_info.val.parent_pid.ok

(* The start of Scenario A: the tree of {1 -> parent 0, 2 -> parent 1} has
   the single root 0, the placeholder, and 1 is its child. *)
RootsHaveNoKnownParentWitness ==
    /\ Returned
    /\ NoDuplicatePid
    /\ \A i \in Indices : HasParent(InfoAt(i))
    /\ DOMAIN nodes = {TopOfTreePid, 1, 2}
    /\ nodes[TopOfTreePid].children = {1}
    /\ nodes[1].children = {2}
    /\ roots = {TopOfTreePid}

(* C4. No orphaned children: in a returned tree every node that is not a
   root is in the children set of exactly one node. *)
NoOrphanedChildren ==
    Returned =>
        \A pid \in DOMAIN nodes \ roots : Cardinality(ParentsOf(pid)) = 1

(* Two non-root nodes, one of them under a parent that has a record. *)
NoOrphanedChildrenWitness ==
    /\ Returned
    /\ Cardinality(DOMAIN nodes \ roots) >= 2
    /\ \E p \in DOMAIN nodes : nodes[p].children # {} /\ RecordsOf(p) # {}

(* C5. Placeholder settlement: in a returned tree, a pid that some record
   names as its parent has a node; its outcome is the placeholder
   NoSuchProcess when the batch has no record for it, and the outcome of its
   record when the batch has one, wherever that record stands in the batch. *)
PlaceholderSettlement ==
    Returned =>
        \A pid \in NamedParents :
            /\ pid \in DOMAIN nodes
            /\ RecordsOf(pid) = {} => nodes[pid].process_info = Err("NoSuchProcess")
            /\ \A i \in RecordsOf(pid) :
                RecordsOf(pid) = {i} => nodes[pid].process_info = InfoAt(i)

(* The record of a parent, which is not NoSuchProcess, arrives after the
   child that names it, and another named parent has no record. *)
PlaceholderSettlementWitness ==
    /\ Returned
    /\ \E i, j \in Indices :
        /\ i < j
        /\ RecordsOf(PidAt(j)) = {j}
        /\ InfoAt(j) # Err("NoSuchProcess")
        /\ HasParent(InfoAt(i)) /\ ParentOf(InfoAt(i)) = PidAt(j)
    /\ \E pid \in NamedParents : RecordsOf(pid) = {}

(* C6. A pid that a record names as its parent and that has no record of
   its own (Scenario D): the returned tree has a node for it, its children
   are exactly the pids of the records whose parent field names it, and it
   is a root. *)
VanishedParentIsRoot ==
    Returned =>
        \A pid \in NamedParents :
            RecordsOf(pid) = {} =>
                /\ pid \in DOMAIN nodes
                /\ nodes[pid].children = {PidAt(i) : i \in NamedBy(pid)}
                /\ pid \in roots

(* Two records name a parent that has no record. *)
VanishedParentIsRootWitness ==
    /\ Returned
    /\ \E pid \in NamedParents :
        /\ RecordsOf(pid) = {}
        /\ Cardinality(NamedBy(pid)) >= 2

(* C7, as stated: a batch with two outcomes for the same pid never yields a
   tree: from fails with an integrity violation. *)
SecondOutcomeRejected ==
    Returned => NoDuplicatePid

(* C8. An edge is registered at most once: in a returned tree every pid is
   in at most one children set, and when two records of the batch have the
   same pid and a readable parent field each (the same parent or not), the
   loop of from never gets past the second one, so no tree is returned. *)
EdgeRegisteredOnce ==
    /\ Returned => \A pid \in DOMAIN nodes : Cardinality(ParentsOf(pid)) <= 1
    /\ \A i, j \in Indices :
        (i < j /\ PidAt(i) = PidAt(j) /\ HasParent(InfoAt(i)) /\ HasParent(InfoAt(j))) =>
            /\ ~Returned
            /\ idx <= j

(* The same child is registered under two different parents and from has
   panicked on the second record. *)
EdgeRegisteredOnceWitness ==
    /\ pc = "panic"
    /\ result \in IntegrityViolations
    /\ \E i, j \in Indices :
        /\ i < j /\ idx = j
        /\ PidAt(i) = PidAt(j)
        /\ HasParent(InfoAt(i)) /\ HasParent(InfoAt(j))
        /\ ParentOf(InfoAt(i)) # ParentOf(InfoAt(j))

(* C9. An integrity violation fails the whole invocation: when an assert!
   of from has failed, main has panicked (it has neither returned Ok nor the
   Err of a fatal failure, no fatal failure having been polled), no tree was
   returned and nothing but the header is logged: no event of any node. *)
IntegrityViolationFailsAll ==
    (result \in IntegrityViolations) =>
        /\ pc = "panic"
        /\ events = <<Header>>
        /\ roots = {}
        /\ \A i \in 1..Len(polled) : polled[i].ok

(* The violation is met on the last of three records, after two nodes were
   filled. *)
IntegrityViolationFailsAllWitness ==
    /\ pc = "panic"
    /\ result \in IntegrityViolations
    /\ idx = MaxBatch
    /\ Cardinality(DOMAIN nodes) >= 2

(* The pids of the node events logged so far, in order, and the position of
   the first event of a pid. *)
LoggedPids == [i \in 1..(Len(events) - 1) |-> events[i + 1].pid]
Visited == {LoggedPids[i] : i \in 1..Len(LoggedPids)}
Pos(pid) == CHOOSE i \in 1..Len(LoggedPids) :
                /\ LoggedPids[i] = pid
                /\ \A j \in 1..Len(LoggedPids) : LoggedPids[j] = pid => i <= j

(* The nodes below a set of nodes, and below one node. *)
RECURSIVE Closure(_)
Closure(pids) ==
    LET more == pids \cup UNION {nodes[p].children : p \in pids \cap DOMAIN nodes}
    IN  IF more = pids THEN pids ELSE Closure(more)

Descendants(pid) == Closure(nodes[pid].children)

(* C10. Traversal order: when log has ended, every root is logged and the
   roots are logged in ascending pid order; the event of a logged node comes
   before the events of all its descendants; the children of a node are
   logged in ascending pid order; and of two siblings (or two roots) the
   whole subtree of the smaller is logged before the event of the larger. *)
TraversalOrder ==
    pc = "done" =>
        /\ roots \subseteq Visited
        /\ \A r1, r2 \in roots :
            r1 < r2 =>
                /\ Pos(r1) < Pos(r2)
                /\ \A d \in Descendants(r1) : d \in Visited /\ Pos(d) < Pos(r2)
        /\ \A p \in Visited :
            /\ \A d \in Descendants(p) : d \in Visited /\ Pos(p) < Pos(d)
            /\ \A c1, c2 \in nodes[p].children :
                c1 < c2 =>
                    /\ Pos(c1) < Pos(c2)
                    /\ \A d \in Descendants(c1) : Pos(d) < Pos(c2)

(* A logged node has two children, the smaller of which has a child of its
   own, logged before the larger. *)
TraversalOrderWitness ==
    /\ pc = "done"
    /\ \E p \in Visited :
        \E c1, c2 \in nodes[p].children :
            /\ c1 < c2
            /\ \E d \in Descendants(c1) : d \in Visited /\ Pos(d) < Pos(c2)

(* Two roots, the smaller of which has a child. *)
TraversalOrderOfRoots ==
    /\ pc = "done"
    /\ \E r1, r2 \in roots :
        /\ r1 < r2
        /\ nodes[r1].children # {}

-----------------------------------------------------------------------------
(* The pids which the events of the first log call name, and how many of
   these events name pid. *)
EventsOf(pid) == {i \in 1..Len(LoggedPids) : LoggedPids[i] = pid}

(* A node is on a cycle of parent pointers when it is its own descendant. *)
OnCycle == {pid \in DOMAIN nodes : pid \in Descendants(pid)}

(* C11. Complete report: when log has ended on a tree which from built, of
   whatever parent pointers, every node of the node table has exactly one
   event: no node is skipped and none is reported twice. *)
CompleteReport ==
    pc = "done" => \A pid \in DOMAIN nodes : Cardinality(EventsOf(pid)) = 1

(* C12. Idempotent traversal: every call of ProcessTree::log on the same tree
   produces the event sequence of the first call, and as long as log runs
   roots and nodes (outcome and children of every node) are those which from
   returned. *)
IdempotentTraversal ==
    /\ Returned =>
        LET built == From(processes)
        IN  /\ nodes = built.nodes
            /\ roots = built.roots
    /\ \A i \in 1..Len(reports) : reports[i] = reports[1]

(* A second call has ended on a tree in which a root has a child. *)
IdempotentTraversalWitness ==
    /\ pc = "done"
    /\ Len(reports) = 2
    /\ \E i \in 1..Len(reports[2]) : reports[2][i].ctx # <<>>

-----------------------------------------------------------------------------
(* The node events logged so far, the record of ProcessInfo behind the event
   of an Available node, and the marker of a denied field. *)
NodeEvents == {events[i] : i \in 2..Len(events)}
AvailableEvents == {e \in NodeEvents : nodes[e.pid].process_info.ok}
RecordOf(e) == nodes[e.pid].process_info.val
DeniedMarker == "Unavailable (AccessDenied)"

(* What an event shows of the parent identifier: the innermost "parent pid"
   of the logger it was logged with, as the event has no key for it. *)
ShownParent(e) == IF e.ctx = <<>> THEN Err("None") ELSE Ok(e.ctx[Len(e.ctx)])

(* C13, as stated: the event of an Available node carries, for each of the
   five fields of the record, the value of the field or the access-denied
   marker: a denied field is never left out. *)
EventCarriesFiveFields ==
    \A e \in AvailableEvents :
        /\ \A f \in FieldNames \ {"parent_pid"} :
            /\ f \in DOMAIN e.fields
            /\ RecordOf(e)[f].ok \/ e.fields[f] = DeniedMarker
        /\ IF RecordOf(e).parent_pid.ok
           THEN ShownParent(e) = RecordOf(e).parent_pid
           ELSE ShownParent(e) = Ok(DeniedMarker)

(* C13, amended: the event of an Available node carries, for each of name,
   exe, command and create_time, the value of the field ("None" for an empty
   exe or command) or the access-denied marker. The parent identifier is no
   field of the event: a readable parent is the "parent pid" of the logger,
   and a denied parent leaves no mark, the node being logged as a root. *)
EventCarriesDisplayedFields ==
    \A e \in AvailableEvents :
        /\ DOMAIN e.fields = FieldNames \ {"parent_pid"}
        /\ \A f \in DOMAIN e.fields :
            IF ~RecordOf(e)[f].ok THEN e.fields[f] = DeniedMarker
            ELSE IF f \in {"exe", "command"} /\ RecordOf(e)[f].val = ""
                 THEN e.fields[f] = "None"
            ELSE e.fields[f] = RecordOf(e)[f].val
        /\ IF RecordOf(e).parent_pid.ok
           THEN ShownParent(e) = RecordOf(e).parent_pid
           ELSE ShownParent(e) = Err("None")

(* The event of a process whose parent and name are denied, whose executable
   path is empty and whose command line and creation time are readable. *)
EventCarriesDisplayedFieldsWitness ==
    \E e \in AvailableEvents :
        /\ ~RecordOf(e).parent_pid.ok
        /\ ~RecordOf(e).name.ok
        /\ RecordOf(e).exe = Ok("")
        /\ RecordOf(e).command = Ok("command")
        /\ RecordOf(e).create_time.ok

-----------------------------------------------------------------------------
(* The record outcomes get_process_info has returned and those the tree
   stores. *)
ReturnedOutcomes == {polled[i].val[2] : i \in {j \in 1..Len(polled) : polled[j].ok}}
StoredOutcomes == {nodes[pid].process_info : pid \in DOMAIN nodes}

(* An Available outcome: the five fields, each a value or denied. *)
IsAvailable(outcome) ==
    /\ outcome.ok
    /\ DOMAIN outcome.val = FieldNames
    /\ \A f \in FieldNames : outcome.val[f].ok \/ outcome.val[f] = Err("AccessDenied")

(* C14, as stated: every outcome get_process_info returns with a pid, and
   every outcome stored in a node, is Available, Vanished (NoSuchProcess) or
   Zombie (ZombieProcess). *)
OutcomeIsOneOfThree ==
    \A outcome \in ReturnedOutcomes \cup StoredOutcomes :
        \/ IsAvailable(outcome)
        \/ outcome \in {Err("NoSuchProcess"), Err("ZombieProcess")}

(* C14, amended: every such outcome is Available, Vanished, Zombie or
   AccessDenied, the fourth being what get_process_info returns exactly when
   the enumeration itself was denied access to the process. *)
OutcomeIsOneOfFour ==
    /\ \A outcome \in ReturnedOutcomes \cup StoredOutcomes :
        \/ IsAvailable(outcome)
        \/ outcome \in {Err("NoSuchProcess"), Err("ZombieProcess"), Err("AccessDenied")}
    /\ (probed # NoCall /\ polled[Len(polled)].ok) =>
        (polled[Len(polled)].val[2] = Err("AccessDenied") <=> probed.enum = "AccessDenied")

(* The tree stores an AccessDenied outcome, and its event is logged. *)
OutcomeIsOneOfFourWitness ==
    /\ pc = "done"
    /\ \E e \in NodeEvents :
        /\ nodes[e.pid].process_info = Err("AccessDenied")
        /\ e.level = "error"

-----------------------------------------------------------------------------
(* The levels of the logger, least severe first, and their order. *)
Levels == <<"trace", "debug", "info", "warn", "error", "critical">>
Severity(level) == CHOOSE i \in 1..Len(Levels) : Levels[i] = level
Below(a, b) == Severity(a) < Severity(b)

(* The outcome behind a node event, by kind. *)
OutcomeKind(e) ==
    IF nodes[e.pid].process_info.ok THEN "Available" ELSE nodes[e.pid].process_info.err

(* C15, as stated: the level of a node event is determined by the outcome of
   the node, and Available, Vanished and Zombie nodes are reported at three
   different levels, Vanished below Zombie. *)
ThreeDistinctLevels ==
    \A e1, e2 \in NodeEvents :
        /\ OutcomeKind(e1) = OutcomeKind(e2) => e1.level = e2.level
        /\ ({OutcomeKind(e1), OutcomeKind(e2)} \subseteq
                {"Available", "NoSuchProcess", "ZombieProcess"}
            /\ OutcomeKind(e1) # OutcomeKind(e2)) => e1.level # e2.level
        /\ (OutcomeKind(e1) = "NoSuchProcess" /\ OutcomeKind(e2) = "ZombieProcess")
            => Below(e1.level, e2.level)

(* C15, amended: the level and the message of a node event are determined by
   the outcome of the node: debug for Available and for Vanished, which only
   the message tells apart, warn for Zombie and error for AccessDenied, so
   Vanished is below Zombie and Zombie below AccessDenied. *)
SeverityByOutcome ==
    \A e \in NodeEvents :
        /\ OutcomeKind(e) = "Available" =>
            e.level = "debug" /\ e.msg = "Found a process"
        /\ OutcomeKind(e) = "NoSuchProcess" =>
            /\ e.level = "debug"
            /\ e.msg = "Found a nonexistent process (it likely vanished, or isn't a real system process)"
        /\ OutcomeKind(e) = "ZombieProcess" =>
            /\ e.level = "warn"
            /\ e.msg = "Found a process in the zombie state"
            /\ \A v \in NodeEvents : OutcomeKind(v) = "NoSuchProcess" => Below(v.level, e.level)
        /\ OutcomeKind(e) = "AccessDenied" =>
            /\ e.level = "error"
            /\ e.msg = "Found a process, but access to its info was denied"
            /\ \A z \in NodeEvents : OutcomeKind(z) = "ZombieProcess" => Below(z.level, e.level)

(* A report with an Available, a Vanished and a Zombie node. *)
SeverityByOutcomeWitness ==
    /\ pc = "done"
    /\ {"Available", "NoSuchProcess", "ZombieProcess"} \subseteq
            {OutcomeKind(e) : e \in NodeEvents}

-----------------------------------------------------------------------------
(* The get_process_info call the collection made last: its argument is
   probed, LastReturn is what it returned. *)
Called == probed # NoCall
LastReturn == polled[Len(polled)]

(* The queries of the call which answer neither a value nor AccessDenied,
   by position in the order of the queries. *)
Stoppers == {i \in 1..Len(FieldOrder) :
                /\ ~probed.q[FieldOrder[i]].ok
                /\ probed.q[FieldOrder[i]].err # "AccessDenied"}
Denied == {f \in FieldNames : probed.q[f] = Err("AccessDenied")}

(* C16. Field-level isolation: when get_process_info is called on an
   enumerated process and some field queries are denied, the record it
   returns stays Available unless another query reports something else than
   a denial; in that record exactly the denied fields are marked denied and
   every other field holds the value its query answered; the record is
   collected and the collection does not fail. *)
FieldIsolation ==
    (Called /\ probed.enum = "Ok" /\ Denied # {}) =>
        IF Stoppers = {}
        THEN /\ LastReturn.ok
             /\ LastReturn.val[1] = probed.pid
             /\ LastReturn.val[2].ok
             /\ \A f \in Denied : LastReturn.val[2].val[f] = Err("AccessDenied")
             /\ \A f \in FieldNames \ Denied :
                    LastReturn.val[2].val[f] = Ok(probed.q[f].val)
             /\ pc # "fatal"
             /\ result # "Err"
             /\ processes[Len(processes)] = LastReturn.val
        ELSE ~(LastReturn.ok /\ LastReturn.val[2].ok)

(* The name query is denied, the four others answer a value, and the record
   is collected as Available. *)
FieldIsolationWitness ==
    /\ Called
    /\ probed.enum = "Ok"
    /\ Denied = {"name"}
    /\ Stoppers = {}
    /\ pc = "collect"
    /\ LastReturn.ok
    /\ LastReturn.val[2].ok
    /\ LastReturn.val[2].val.exe.ok

(* The first query of the call to answer neither a value nor AccessDenied,
   the only such answer that is reported: the function returns on it. *)
FirstStopper == CHOOSE i \in Stoppers : \A j \in Stoppers : i <= j
Reported ==
    IF probed.enum # "Ok" THEN probed.enum
    ELSE IF Stoppers = {} THEN "Ok"
    ELSE probed.q[FieldOrder[FirstStopper]].err

(* The last record of the batch for the pid of record i. *)
LastRecordOf(pid) == CHOOSE i \in RecordsOf(pid) : \A j \in RecordsOf(pid) : j <= i

(* C17. Record-level failure: when the enumeration or a field query reports
   NoSuchProcess or ZombieProcess to get_process_info, it returns Ok with
   the pid and that error as outcome, without fields, the collection does
   not fail, and once from has returned the node table has a node for every
   pid of such a record, holding the outcome of the last record of the pid. *)
RecordLevelFailure ==
    /\ (Called /\ Reported \in {"NoSuchProcess", "ZombieProcess"}) =>
        /\ LastReturn = Ok(<<probed.pid, Err(Reported)>>)
        /\ pc # "fatal"
        /\ result # "Err"
        /\ processes[Len(processes)] = <<probed.pid, Err(Reported)>>
    /\ Returned =>
        \A i \in Indices :
            InfoAt(i) \in {Err("NoSuchProcess"), Err("ZombieProcess")} =>
                /\ PidAt(i) \in DOMAIN nodes
                /\ nodes[PidAt(i)].process_info = InfoAt(LastRecordOf(PidAt(i)))

(* The exe query of an enumerated process reports ZombieProcess after the
   name query was denied, and the tree has the Zombie node of the pid. *)
RecordLevelFailureWitness ==
    /\ pc = "done"
    /\ Called
    /\ probed.enum = "Ok"
    /\ probed.q.name = Err("AccessDenied")
    /\ probed.q.exe = Err("ZombieProcess")
    /\ Reported = "ZombieProcess"
    /\ nodes[probed.pid].process_info = Err("ZombieProcess")

(* C18. get_process_info returns Err exactly when the enumeration or the
   query it stops on reports Load, and main ends on that error; whatever
   else is reported, a denied field, a denied, vanished or zombie process,
   it returns Ok with the pid, and the collection does not fail. *)
FatalOnlyOnLoad ==
    Called =>
        IF Reported = "Load"
        THEN /\ LastReturn = Err("Load")
             /\ pc = "fatal"
             /\ result = "Err"
        ELSE /\ LastReturn.ok
             /\ LastReturn.val[1] = probed.pid
             /\ LastReturn.val[2].ok <=> Reported = "Ok"
             /\ pc # "fatal"
             /\ result # "Err"

(* The last query of an enumerated process reports Load after two denials. *)
FatalOnlyOnLoadWitness ==
    /\ Called
    /\ probed.enum = "Ok"
    /\ Denied = {"parent_pid", "exe"}
    /\ Stoppers = {Len(FieldOrder)}
    /\ Reported = "Load"
    /\ pc = "fatal"

-----------------------------------------------------------------------------
(* The pids of the active log_subtree calls, outermost first. *)
ActivePids == [i \in 1..Len(stack) |-> stack[i].pid]

(* C19, as stated: when the parent pointers of the batch contain a cycle,
   ProcessTree::log never ends. *)
CycleNeverTerminates ==
    (Returned /\ OnCycle # {}) => pc # "done"

(* C19, amended: whatever the parent pointers, cycles included, the
   traversal is bounded, so that ProcessTree::log ends: log_subtree is
   entered at most once per node and is never active twice on a node, and as
   long as log has not ended it has a step to take. No node on a cycle is a
   root, and neither such a node nor a node below one is ever visited. *)
CycleNeverVisited ==
    Returned =>
        /\ \A i, j \in 1..Len(LoggedPids) : LoggedPids[i] = LoggedPids[j] => i = j
        /\ \A i, j \in 1..Len(ActivePids) : ActivePids[i] = ActivePids[j] => i = j
        /\ OnCycle \cap roots = {}
        /\ Closure(OnCycle) \cap Visited = {}
        /\ pc = "log" => ENABLED (LogRoot \/ LogChild \/ LogReturn \/ LogEnd)

(* log has ended on a tree in which 1 and 2 are each other's parent. *)
CycleNeverVisitedWitness ==
    /\ pc = "done"
    /\ result = "Ok"
    /\ OnCycle = {1, 2}
    /\ 1 \in nodes[2].children
    /\ 2 \in nodes[1].children

-----------------------------------------------------------------------------
(* The children the iteration of from on record i registers under node p:
   the pid of the record if its readable parent is p. *)
RegisteredUnder(p, i) ==
    IF HasParent(InfoAt(i)) /\ ParentOf(InfoAt(i)) = p THEN {PidAt(i)} ELSE {}

(* C20. Settling a placeholder changes only its outcome: in an iteration of
   from on a record whose pid has a node already, the node takes the outcome
   of the record and keeps its children, every other node keeps its outcome
   and its children, but for the pid of the record, which the same iteration
   registers under its parent, and the only node that may be created is the
   placeholder of that parent. *)
SettlementFrame ==
    [][(pc = "from" /\ pc' = "from" /\ idx' = idx + 1 /\ PidAt(idx) \in DOMAIN nodes) =>
        /\ DOMAIN nodes' =
                DOMAIN nodes \cup {p \in ParentPids : RegisteredUnder(p, idx) # {}}
        /\ nodes'[PidAt(idx)].process_info = InfoAt(idx)
        /\ \A p \in DOMAIN nodes :
            /\ nodes'[p].children = nodes[p].children \cup RegisteredUnder(p, idx)
            /\ p # PidAt(idx) => nodes'[p].process_info = nodes[p].process_info
        /\ \A p \in DOMAIN nodes' \ DOMAIN nodes :
            nodes'[p] = [process_info |-> Err("NoSuchProcess"),
                         children |-> RegisteredUnder(p, idx)]]_vars

(* A placeholder with a child has just been settled by an Available record
   which arrived after the record of the child. *)
SettlementFrameWitness ==
    /\ pc = "from"
    /\ idx > 2
    /\ InfoAt(idx - 1).ok
    /\ nodes[PidAt(idx - 1)].process_info = InfoAt(idx - 1)
    /\ \E i \in 1..(idx - 2) :
        /\ PidAt(i) # PidAt(idx - 1)
        /\ RegisteredUnder(PidAt(idx - 1), i) # {}
        /\ PidAt(i) \in nodes[PidAt(idx - 1)].children

-----------------------------------------------------------------------------
(* cpu::startup_report *)

(* Option<T> values *)
Some(v) == [some |-> TRUE, val |-> v]
None == [some |-> FALSE]

(* CpuFrequency, as far as startup_report reads it: min() and max(), each an
   Option<Frequency>. *)
Frequencies == {None} \cup {Some(f) : f \in 1..MaxFreq}
CpuFrequency == [min : Frequencies, max : Frequencies]

(* Option<Vec<CpuFrequency>> *)
PerCpuFreqs ==
    {None} \cup {Some(v) : v \in UNION {[1..n -> CpuFrequency] : n \in 0..MaxCpus}}

(* A record logged without frequency data, with the root logger. *)
CpuRecord(level, msg) ==
    [level |-> level, msg |-> msg, index |-> None, min |-> None, max |-> None]

(* The closure log_freq_range, on a logger whose "logical cpu index" is index
   (None for the root logger). *)
log_freq_range(index, title, freq) ==
    IF freq.min.some /\ freq.max.some
    THEN [level |-> "info", msg |-> "Found " \o title \o " frequency range",
          index |-> index, min |-> freq.min, max |-> freq.max]
    ELSE [level |-> "warn", msg |-> "Some " \o title \o " frequency range data is missing",
          index |-> index, min |-> freq.min, max |-> freq.max]

(* The records of the loop on old_idx in 0..idx (cpu_idx is the idx of the loop). *)
OldRecords(cpu_idx, global_cpu_freq) ==
    [i \in 1..cpu_idx |-> log_freq_range(Some(i - 1), "per-CPU", global_cpu_freq)]

(* LoopBodyNoOld is the variant of LoopBody, defined next, that does not go
   back to the CPUs before the first one that differs. *)
LoopBodyNoOld(printing_detailed_freqs, cpu_idx, freq, global_cpu_freq) ==
    IF printing_detailed_freqs
    THEN [printing_detailed_freqs |-> TRUE,
          logged |-> <<log_freq_range(Some(cpu_idx), "per-CPU", freq)>>]
    ELSE IF <<freq.min, freq.max>> # <<global_cpu_freq.min, global_cpu_freq.max>>
    THEN [printing_detailed_freqs |-> TRUE,
          logged |-> <<log_freq_range(Some(cpu_idx), "per-CPU", freq)>>]
    ELSE [printing_detailed_freqs |-> FALSE, logged |-> <<>>]

(* One iteration of the loop on per_cpu_freqs, at index cpu_idx (from 0): the new
   value of printing_detailed_freqs and the records logged. *)
LoopBody(printing_detailed_freqs, cpu_idx, freq, global_cpu_freq) ==
    IF printing_detailed_freqs
    THEN [printing_detailed_freqs |-> TRUE,
          logged |-> <<log_freq_range(Some(cpu_idx), "per-CPU", freq)>>]
    ELSE IF <<freq.min, freq.max>> # <<global_cpu_freq.min, global_cpu_freq.max>>
    THEN [printing_detailed_freqs |-> TRUE,
          logged |-> OldRecords(cpu_idx, global_cpu_freq)
                        \o <<log_freq_range(Some(cpu_idx), "per-CPU", freq)>>]
    ELSE [printing_detailed_freqs |-> FALSE, logged |-> <<>>]

(* The calls of startup_report: the counts are only logged, the physical
   count is left unknown. *)
CpuCalls ==
    {[pc |-> "start", logical_cpus |-> l, physical_cpus |-> None,
      global_cpu_freq |-> g, per_cpu_freqs |-> p,
      idx |-> 0, printing_detailed_freqs |-> FALSE, log |-> <<>>] :
        l \in 1..MaxCpus, g \in CpuFrequency, p \in PerCpuFreqs}

InitCpu ==
    /\ ProcessInit
    /\ cpu \in CpuCalls
    /\ monitor = Idle
    /\ network = Idle
    /\ format = Idle

(* The configuration is logged and, if there is a per-CPU breakdown, the loop
   on it starts. *)
CpuReceived ==
    /\ cpu.pc = "start"
    /\ LET received == CpuRecord("info", "Received CPU configuration information") IN
       IF cpu.per_cpu_freqs.some
       THEN cpu' = [cpu EXCEPT !.pc = "loop",
                               !.log = <<received,
                                         CpuRecord("debug", "Got per-CPU frequency ranges, processing them...")>>]
       ELSE cpu' = [cpu EXCEPT !.pc = "global", !.log = <<received>>]
    /\ UNCHANGED <<processVars, monitor, network, format>>

(* One iteration of the loop on per_cpu_freqs. *)
CpuIteration ==
    /\ cpu.pc = "loop"
    /\ cpu.idx < Len(cpu.per_cpu_freqs.val)
    /\ LET body == LoopBody(cpu.printing_detailed_freqs, cpu.idx,
                            cpu.per_cpu_freqs.val[cpu.idx + 1], cpu.global_cpu_freq)
       IN  cpu' = [cpu EXCEPT !.idx = cpu.idx + 1,
                              !.printing_detailed_freqs = body.printing_detailed_freqs,
                              !.log = cpu.log \o body.logged]
    /\ UNCHANGED <<processVars, monitor, network, format>>

(* The loop is over. *)
CpuLoopEnd ==
    /\ cpu.pc = "loop"
    /\ cpu.idx = Len(cpu.per_cpu_freqs.val)
    /\ IF cpu.printing_detailed_freqs
       THEN cpu' = [cpu EXCEPT !.pc = "global"]
       ELSE cpu' = [cpu EXCEPT !.pc = "global",
                               !.log = Append(cpu.log,
                                   CpuRecord("debug", "Per-CPU frequency ranges match global frequency range, no need for a detailed breakdown"))]
    /\ UNCHANGED <<processVars, monitor, network, format>>

(* The global range is logged unless the breakdown was, and the function
   returns. *)
CpuGlobal ==
    /\ cpu.pc = "global"
    /\ IF cpu.printing_detailed_freqs
       THEN cpu' = [cpu EXCEPT !.pc = "done"]
       ELSE cpu' = [cpu EXCEPT !.pc = "done",
                               !.log = Append(cpu.log,
                                   log_freq_range(None, "global CPU", cpu.global_cpu_freq))]
    /\ UNCHANGED <<processVars, monitor, network, format>>

NextCpu ==
    \/ CpuReceived
    \/ CpuIteration
    \/ CpuLoopEnd
    \/ CpuGlobal

SpecCpu == InitCpu /\ [][NextCpu]_vars

(* The frequency records of the report: those of a CPU, in order, and those
   of the global range. *)
IsPerCpu(e) == e.index.some
IsGlobal(e) == e.msg \in {"Found global CPU frequency range",
                          "Some global CPU frequency range data is missing"}
PerCpuRecords == SelectSeq(cpu.log, IsPerCpu)
GlobalRecords == SelectSeq(cpu.log, IsGlobal)
Range(freq) == <<freq.min, freq.max>>
SomeCpuDiffers ==
    /\ cpu.per_cpu_freqs.some
    /\ \E i \in 1..Len(cpu.per_cpu_freqs.val) :
        Range(cpu.per_cpu_freqs.val[i]) # Range(cpu.global_cpu_freq)

(* C21. When startup_report has returned: if there are per-CPU ranges and
   one of them differs from the global range, there is exactly one per-CPU
   frequency record for every index of the per-CPU list, in ascending order
   of index, each with the range of its CPU, and no global frequency record;
   otherwise there is exactly one global frequency record, with the global
   range, and no per-CPU frequency record. *)
FrequencyReport ==
    cpu.pc = "done" =>
        IF SomeCpuDiffers
        THEN /\ Len(PerCpuRecords) = Len(cpu.per_cpu_freqs.val)
             /\ \A i \in 1..Len(PerCpuRecords) :
                    /\ PerCpuRecords[i].index = Some(i - 1)
                    /\ Range(PerCpuRecords[i]) = Range(cpu.per_cpu_freqs.val[i])
             /\ GlobalRecords = <<>>
        ELSE /\ Len(GlobalRecords) = 1
             /\ Range(GlobalRecords[1]) = Range(cpu.global_cpu_freq)
             /\ PerCpuRecords = <<>>

(* The report of three CPUs of which only the last differs from the global
   range. *)
FrequencyReportWitness ==
    /\ cpu.pc = "done"
    /\ cpu.per_cpu_freqs.some
    /\ Len(cpu.per_cpu_freqs.val) = 3
    /\ Range(cpu.per_cpu_freqs.val[1]) = Range(cpu.global_cpu_freq)
    /\ Range(cpu.per_cpu_freqs.val[2]) = Range(cpu.global_cpu_freq)
    /\ Range(cpu.per_cpu_freqs.val[3]) # Range(cpu.global_cpu_freq)
    /\ Len(PerCpuRecords) = 3

-----------------------------------------------------------------------------
(* cpu::Monitor *)

(* CpuStats, as far as Monitor reads it: the three counters stats_change
   subtracts. *)
Counters == 0..MaxCount
CounterNames == {"ctx_switches", "interrupts", "soft_interrupts"}
CpuStats == [CounterNames -> Counters]

(* The results of the heim queries: a value or the heim error. *)
Measured(values) == {Ok(v) : v \in values} \cup {Err("heim")}

(* u64 subtraction in a build with (panics) or without (wraps) overflow
   checks. *)
Modulus == MaxCount + 1
u64_sub(a, b, overflow_checks) ==
    IF a >= b THEN Ok(a - b)
    ELSE IF overflow_checks THEN Err("attempt to subtract with overflow")
    ELSE Ok((a - b) % Modulus)

(* The fields of StatsDelta, by the counter each is the change of:
   new_soft_interrupts is in the Linux build only. *)
DeltaNames(linux) ==
    IF linux THEN CounterNames ELSE CounterNames \ {"soft_interrupts"}

(* stats_change_keep is the variant of stats_change, defined next, that
   does not store the new counters. *)
stats_change_keep(self_stats, stats, overflow_checks, linux) ==
    LET sub(c) == u64_sub(stats[c], self_stats[c], overflow_checks) IN
    IF \E c \in DeltaNames(linux) : ~sub(c).ok
    THEN [panic |-> TRUE, stats |-> self_stats]
    ELSE [panic |-> FALSE, stats |-> self_stats,
          result |-> [c \in DeltaNames(linux) |-> sub(c).val]]

(* Monitor::stats_change once heim::cpu::stats() has answered stats: the
   StatsDelta returned and the counters stored, or the panic of a
   subtraction. *)
stats_change(self_stats, stats, overflow_checks, linux) ==
    LET sub(c) == u64_sub(stats[c], self_stats[c], overflow_checks) IN
    IF \E c \in DeltaNames(linux) : ~sub(c).ok
    THEN [panic |-> TRUE, stats |-> self_stats]
    ELSE [panic |-> FALSE, stats |-> stats,
          result |-> [c \in DeltaNames(linux) |-> sub(c).val]]

(* CpuTime, as far as time_change can fail on it: one of the timings every
   build has, and the two optional timings guest() and guest_nice(), which
   only the Linux build has. *)
CpuTimes(linux) ==
    {[user |-> u, guest |-> g, guest_nice |-> gn] :
        u \in Counters,
        g \in IF linux THEN {None, Some(0)} ELSE {None},
        gn \in IF linux THEN {None, Some(0)} ELSE {None}}

(* The closure guest_sub of time_change: the difference of two optional
   timings, and unreachable! when only one of them is there. *)
guest_sub(t1, t2) ==
    IF t1.some /\ t2.some THEN [panic |-> FALSE, val |-> Some(t1.val - t2.val)]
    ELSE IF ~t1.some /\ ~t2.some THEN [panic |-> FALSE, val |-> None]
    ELSE [panic |-> TRUE]

(* Monitor::time_change once heim::cpu::time() has answered time: the
   timing stored, or the panic of guest_sub, which only the Linux build
   calls. The timings are floating-point quantities and their differences
   cannot fail. The product of the elapsed time by logical_count can
   overflow a Duration only after 2^32 seconds, and is left out with the
   rest of the breakdown returned. *)
time_change(self_time, time, linux) ==
    IF linux /\ (guest_sub(time.guest, self_time.guest).panic
                 \/ guest_sub(time.guest_nice, self_time.guest_nice).panic)
    THEN [panic |-> TRUE, time |-> self_time]
    ELSE [panic |-> FALSE, time |-> time]

(* Lists of n per-CPU measurements; what is measured is left out. *)
PerCpu(n) == [i \in 1..n |-> "cpu"]

(* Monitor::new is awaited. *)
InitMonitor ==
    /\ ProcessInit
    /\ cpu = Idle
    /\ monitor = [pc |-> "new"]
    /\ network = Idle
    /\ format = Idle

(* Monitor::new: the seven queries answer, logical_count with one of
   `counts`, frequencies() and times() with streams of one of `lengths`
   items, stats() with one of `initial`, time() with one of `timings` that
   the build has; failed says that one of them answered an error, which
   try_join! returns. frequency_ranges is Some in the Linux build and None
   in the others. *)
MonitorNewOf(counts, lengths, initial, timings) ==
    /\ monitor.pc = "new"
    /\ \E failed \in BOOLEAN :
        IF failed
        THEN monitor' = [pc |-> "failed"]
        ELSE \E logical_count \in counts, per_cpu \in {None} \cup {Some(PerCpu(n)) : n \in lengths},
                n_times \in lengths, stats \in initial :
             \E time \in timings \cap CpuTimes(per_cpu.some) :
                monitor' = [pc |-> "ready",
                            stats |-> stats,
                            time |-> time,
                            logical_count |-> logical_count,
                            frequency_ranges |-> per_cpu,
                            times |-> PerCpu(n_times),
                            first_stats |-> stats,
                            returned |-> <<>>,
                            calls |-> 0]
    /\ UNCHANGED <<processVars, cpu, network, format>>

(* Monitor::stats_change, heim::cpu::stats() answering one of `measures`.
   returned keeps, for each successful call, what was measured and what was
   returned. The build is the Linux one when frequency_ranges is Some. *)
StatsChangeOf(measures) ==
    /\ monitor.pc = "ready"
    /\ monitor.calls < MaxCalls
    /\ \E answer \in Measured(measures), overflow_checks \in BOOLEAN :
        IF ~answer.ok
        THEN monitor' = [monitor EXCEPT !.calls = monitor.calls + 1]
        ELSE LET call == stats_change(monitor.stats, answer.val, overflow_checks,
                                      monitor.frequency_ranges.some) IN
             IF call.panic
             THEN monitor' = [monitor EXCEPT !.pc = "panic"]
             ELSE monitor' = [monitor EXCEPT
                                !.calls = monitor.calls + 1,
                                !.stats = call.stats,
                                !.returned = Append(monitor.returned,
                                    [measured |-> answer.val, result |-> call.result])]
    /\ UNCHANGED <<processVars, cpu, network, format>>

(* Monitor::time_change: heim::cpu::time() answers; the new aggregated
   timing is stored, or guest_sub panics and nothing is. The build is the
   Linux one when frequency_ranges is Some. *)
TimeChange ==
    /\ monitor.pc = "ready"
    /\ monitor.calls < MaxCalls
    /\ LET linux == monitor.frequency_ranges.some IN
       \E answer \in Measured(CpuTimes(linux)) :
        IF ~answer.ok
        THEN monitor' = [monitor EXCEPT !.calls = monitor.calls + 1]
        ELSE LET call == time_change(monitor.time, answer.val, linux) IN
             IF call.panic
             THEN monitor' = [monitor EXCEPT !.pc = "panic"]
             ELSE monitor' = [monitor EXCEPT !.calls = monitor.calls + 1,
                                             !.time = call.time]
    /\ UNCHANGED <<processVars, cpu, network, format>>

(* Monitor::frequency_ranges: the debug_assert_eq! panics in a build with
   debug assertions when the lengths differ. *)
FrequencyRanges ==
    /\ monitor.pc = "ready"
    /\ monitor.calls < MaxCalls
    /\ \E debug_assertions \in BOOLEAN :
        IF /\ debug_assertions
           /\ monitor.frequency_ranges.some
           /\ Len(monitor.frequency_ranges.val) # monitor.logical_count
        THEN monitor' = [monitor EXCEPT !.pc = "panic"]
        ELSE monitor' = [monitor EXCEPT !.calls = monitor.calls + 1]
    /\ UNCHANGED <<processVars, cpu, network, format>>

(* A Monitor whose counters are measured in every way. *)
MonitorNewStats == MonitorNewOf({1}, {1}, CpuStats, CpuTimes(FALSE))
StatsChange == StatsChangeOf(CpuStats)

NextStats ==
    \/ MonitorNewStats
    \/ StatsChange

SpecStats == InitMonitor /\ [][NextStats]_vars

(* The counters stored before the i-th successful call of stats_change. *)
StoredBefore(i) ==
    IF i = 1 THEN monitor.first_stats ELSE monitor.returned[i - 1].measured

RECURSIVE SumOf(_, _)
SumOf(c, n) == IF n = 0 THEN 0 ELSE monitor.returned[n].result[c] + SumOf(c, n - 1)

NeverDecreased(c) ==
    \A i \in 1..Len(monitor.returned) : StoredBefore(i)[c] <= monitor.returned[i].measured[c]

(* C22. stats_change reports the change since the last measurement: every
   successful call has returned, for each counter that StatsDelta has in
   the build (soft_interrupts in the Linux one only), what it measured minus
   what the previous successful call (or Monitor::new) stored, in u64
   arithmetic, and the Monitor stores what the last one measured; so the
   returned deltas sum to the latest measurement minus the initial one, in
   u64 arithmetic, and exactly so for a counter that never decreased. *)
StatsDelta ==
    monitor.pc = "ready" =>
        LET n == Len(monitor.returned) IN
        /\ monitor.stats = StoredBefore(n + 1)
        /\ \A i \in 1..n :
            DOMAIN monitor.returned[i].result = DeltaNames(monitor.frequency_ranges.some)
        /\ \A c \in DeltaNames(monitor.frequency_ranges.some) :
            /\ \A i \in 1..n :
                monitor.returned[i].result[c] =
                    (monitor.returned[i].measured[c] - StoredBefore(i)[c]) % Modulus
            /\ SumOf(c, n) % Modulus = (monitor.stats[c] - monitor.first_stats[c]) % Modulus
            /\ NeverDecreased(c) => SumOf(c, n) = monitor.stats[c] - monitor.first_stats[c]

(* Two calls have succeeded, with a failed call or none between them, and a
   counter has grown at each. *)
StatsDeltaWitness ==
    /\ monitor.pc = "ready"
    /\ Len(monitor.returned) = 2
    /\ monitor.first_stats["interrupts"] < monitor.returned[1].measured["interrupts"]
    /\ monitor.returned[2].result["ctx_switches"] > 0
    /\ NeverDecreased("ctx_switches")

-----------------------------------------------------------------------------
(* A Monitor whose construction is answered in every way, and all of its
   operations. *)
EqualCounters == {[c \in CounterNames |-> v] : v \in Counters}
MonitorNew == MonitorNewOf(1..MaxCpus, 0..MaxCpus, EqualCounters, CpuTimes(TRUE))
StatsChangeEqual == StatsChangeOf(EqualCounters)

NextMonitor ==
    \/ MonitorNew
    \/ StatsChangeEqual
    \/ TimeChange
    \/ FrequencyRanges

SpecMonitor == InitMonitor /\ [][NextMonitor]_vars

(* C23. Monitor invariant: in every Monitor that Monitor::new has returned,
   and after any sequence of its operations, times.len() equals
   logical_count and frequency_ranges, when present, has logical_count
   entries. *)
MonitorInvariant ==
    monitor.pc = "ready" =>
        /\ Len(monitor.times) = monitor.logical_count
        /\ monitor.frequency_ranges.some =>
                Len(monitor.frequency_ranges.val) = monitor.logical_count

-----------------------------------------------------------------------------
(* network::startup_report *)

(* The Nic entries of the model. Of the three flags one at most departs from
   (up, not loopback, multicast); is_broadcast and is_point_to_point, which
   only Linux reports, are never both set; the address is a link-layer, an
   IPv4 or an IPv6 one, with port 0; a link-layer address has no netmask,
   an IPv6 one has one and an IPv4 one may have one; there may be a
   destination and there is no broadcast address. *)
NicFlags ==
    {[is_up |-> TRUE, is_loopback |-> FALSE, is_multicast |-> TRUE],
     [is_up |-> FALSE, is_loopback |-> FALSE, is_multicast |-> TRUE],
     [is_up |-> TRUE, is_loopback |-> TRUE, is_multicast |-> TRUE],
     [is_up |-> TRUE, is_loopback |-> FALSE, is_multicast |-> FALSE]}

NicModes(linux) ==
    IF linux
    THEN {[is_broadcast |-> TRUE, is_point_to_point |-> FALSE],
          [is_broadcast |-> FALSE, is_point_to_point |-> TRUE],
          [is_broadcast |-> FALSE, is_point_to_point |-> FALSE]}
    ELSE {[is_broadcast |-> FALSE, is_point_to_point |-> FALSE]}

NicAddresses ==
    {[address |-> "Link", netmask |-> None],
     [address |-> "V4", netmask |-> None],
     [address |-> "V4", netmask |-> Some("V4")],
     [address |-> "V6", netmask |-> Some("V6")]}

(* The interface names, in the order of a BTreeMap<String, _>. *)
NicNames == <<"eth0", "lo">>

Nics(linux) ==
    {[name |-> NicNames[n], destination |-> d, broadcast |-> None] @@ a @@ f @@ m :
        n \in 1..Len(NicNames), a \in NicAddresses, d \in {None, Some("dest")},
        f \in NicFlags, m \in NicModes(linux)}

(* LinkType::check *)
LinkTypeCheck(interface, linux) ==
    IF linux THEN
        IF interface.is_broadcast THEN Some("Broadcast")
        ELSE IF interface.is_point_to_point THEN Some("PointToPoint")
        ELSE Some("Neither")
    ELSE IF interface.destination.some THEN Some("PointToPoint") ELSE None

(* AddressProperties::new: [panic, val], panic the message of the assert
   that failed, "" if none did. *)
AddressPropertiesNew(interface, linux) ==
    LET target == interface.destination IN
    IF linux /\ target.some /\ ~interface.is_point_to_point
    THEN [panic |-> "Network interface claims not to operate in point-to-point mode, but it has a destination address"]
    ELSE IF linux /\ target.some /\ interface.broadcast.some
    THEN [panic |-> "Network interface claims to operate in point-to-point mode, but it has a broadcast address."]
    ELSE IF linux /\ ~target.some /\ interface.broadcast.some /\ ~interface.is_broadcast
    THEN [panic |-> "Network interface claims not to operate in broadcast mode, but it has a broadcast address"]
    ELSE [panic |-> "",
          val |-> [address |-> interface.address, netmask |-> interface.netmask,
                   target |-> IF linux /\ ~target.some THEN interface.broadcast ELSE target]]

(* The link type after the match on (self.link_type, LinkType::check). *)
MergeLinkType(old, new) ==
    IF old.some /\ new.some THEN
        IF old = new THEN [panic |-> "", val |-> old]
        ELSE [panic |-> "Reported NIC status is inconsistent", val |-> old]
    ELSE IF new.some THEN [panic |-> "", val |-> new]
    ELSE [panic |-> "", val |-> old]

(* The registration of the address, last part of add_address. The variant
   RegisterAddressReplace replaces a link-layer address already there. *)
RegisterAddressReplace(self, interface, linux) ==
    LET props == AddressPropertiesNew(interface, linux) IN
    IF interface.address = "Link" THEN
        IF interface.netmask # None THEN [panic |-> "No netmasks at link layer", val |-> self]
        ELSE IF interface.destination # None
        THEN [panic |-> "No dests at link layer", val |-> self]
        ELSE IF props.panic # "" THEN [panic |-> props.panic, val |-> self]
        ELSE [panic |-> "", val |-> [self EXCEPT !.link_address = Some(props.val)]]
    ELSE IF props.panic # "" THEN [panic |-> props.panic, val |-> self]
    ELSE IF interface.address = "V4"
    THEN [panic |-> "",
          val |-> [self EXCEPT !.ipv4_addresses = Append(self.ipv4_addresses, props.val)]]
    ELSE [panic |-> "",
          val |-> [self EXCEPT !.ipv6_addresses = Append(self.ipv6_addresses, props.val)]]

RegisterAddress(self, interface, linux) ==
    LET props == AddressPropertiesNew(interface, linux) IN
    IF interface.address = "Link" THEN
        IF self.link_address # None
        THEN [panic |-> "Link address should be unique", val |-> self]
        ELSE IF interface.netmask # None
        THEN [panic |-> "No netmasks at link layer", val |-> self]
        ELSE IF interface.destination # None
        THEN [panic |-> "No dests at link layer", val |-> self]
        ELSE IF props.panic # "" THEN [panic |-> props.panic, val |-> self]
        ELSE [panic |-> "", val |-> [self EXCEPT !.link_address = Some(props.val)]]
    ELSE IF props.panic # "" THEN [panic |-> props.panic, val |-> self]
    ELSE IF interface.address = "V4"
    THEN [panic |-> "",
          val |-> [self EXCEPT !.ipv4_addresses = Append(self.ipv4_addresses, props.val)]]
    ELSE [panic |-> "",
          val |-> [self EXCEPT !.ipv6_addresses = Append(self.ipv6_addresses, props.val)]]

(* InterfaceProperties::add_address: [panic, val]. *)
add_address(self, interface, linux) ==
    IF \/ self.is_up # interface.is_up
       \/ self.is_loopback # interface.is_loopback
       \/ self.is_multicast # interface.is_multicast
    THEN [panic |-> "Reported NIC status is inconsistent", val |-> self]
    ELSE LET merged == MergeLinkType(self.link_type, LinkTypeCheck(interface, linux)) IN
         IF merged.panic # "" THEN [panic |-> merged.panic, val |-> self]
         ELSE RegisterAddress([self EXCEPT !.link_type = merged.val], interface, linux)

(* InterfaceProperties::new: [panic, val]. *)
InterfacePropertiesNew(interface, linux) ==
    add_address([is_up |-> interface.is_up,
                 is_loopback |-> interface.is_loopback,
                 is_multicast |-> interface.is_multicast,
                 link_type |-> LinkTypeCheck(interface, linux),
                 link_address |-> None,
                 ipv4_addresses |-> <<>>,
                 ipv6_addresses |-> <<>>],
                interface, linux)

(* One iteration of the loop on network_interfaces: the entry of the name is
   created or updated. *)
NicIteration(name_to_properties, interface, linux) ==
    IF interface.name \notin DOMAIN name_to_properties
    THEN LET made == InterfacePropertiesNew(interface, linux) IN
         [panic |-> made.panic,
          val |-> IF made.panic = "" THEN (interface.name :> made.val) @@ name_to_properties
                  ELSE name_to_properties]
    ELSE LET added == add_address(name_to_properties[interface.name], interface, linux) IN
         [panic |-> added.panic,
          val |-> [name_to_properties EXCEPT ![interface.name] = added.val]]

(* The first record of startup_report. *)
NicHeader == [level |-> "debug", msg |-> "Processing network interface list..."]

(* print_ip_target, and the same for the link-layer broadcast address. *)
print_ip_target(target) == IF target.some THEN target.val ELSE "None"

(* The records of the loop on the IPv4 or the IPv6 addresses of an
   interface, up to the panic of expect on an address without netmask:
   [panic, log]. *)
RECURSIVE IpRecords(_, _, _)
IpRecords(name, msg, addresses) ==
    IF addresses = <<>> THEN [panic |-> "", log |-> <<>>]
    ELSE LET props == Head(addresses) IN
         IF ~props.netmask.some
         THEN [panic |-> "IP addresses should have a subnet mask", log |-> <<>>]
         ELSE LET rest == IpRecords(name, msg, Tail(addresses)) IN
              [panic |-> rest.panic,
               log |-> <<[level |-> "info", msg |-> msg, name |-> name,
                          address |-> props.address, netmask |-> props.netmask.val,
                          target |-> print_ip_target(props.target)]>> \o rest.log]

(* The records of the report on one interface, up to a panic: [panic, log]. *)
InterfaceRecords(name, interface) ==
    LET found == <<[level |-> "info", msg |-> "Found a network interface", name |-> name,
                    up |-> interface.is_up, loopback |-> interface.is_loopback,
                    multicast |-> interface.is_multicast,
                    link_type |-> IF ~interface.link_type.some THEN "Unknown"
                                  ELSE IF interface.link_type.val = "Neither" THEN "None"
                                  ELSE interface.link_type.val]>>
        link == IF ~interface.link_address.some THEN <<>>
                ELSE <<[level |-> "info", msg |-> "Got a link-layer address", name |-> name,
                        address |-> interface.link_address.val.address,
                        broadcast |-> print_ip_target(interface.link_address.val.target)]>>
        ipv4 == IpRecords(name, "Got an IPv4 address", interface.ipv4_addresses)
        ipv6 == IpRecords(name, "Got an IPv6 address", interface.ipv6_addresses)
    IN  IF interface.link_address.some /\ interface.link_address.val.netmask # None
        THEN [panic |-> "Link-layer addresses shouldn't have subnet masks", log |-> found]
        ELSE IF ipv4.panic # ""
        THEN [panic |-> ipv4.panic, log |-> found \o link \o ipv4.log]
        ELSE [panic |-> ipv6.panic, log |-> found \o link \o ipv4.log \o ipv6.log]

(* The loop on name_to_properties, from the i-th name on: [panic, log]. *)
RECURSIVE ReportRecords(_, _)
ReportRecords(name_to_properties, i) ==
    IF i > Len(NicNames) THEN [panic |-> "", log |-> <<>>]
    ELSE IF NicNames[i] \notin DOMAIN name_to_properties
    THEN ReportRecords(name_to_properties, i + 1)
    ELSE LET first == InterfaceRecords(NicNames[i], name_to_properties[NicNames[i]]) IN
         IF first.panic # "" THEN first
         ELSE LET rest == ReportRecords(name_to_properties, i + 1) IN
              [panic |-> rest.panic, log |-> first.log \o rest.log]

(* startup_report is called; the build is for Linux or not, and the list
   is given item by item. *)
InitNetwork ==
    /\ ProcessInit
    /\ cpu = Idle
    /\ monitor = Idle
    /\ network \in {[pc |-> "start", linux |-> l, network_interfaces |-> <<>>,
                     name_to_properties |-> <<>>, panic |-> "", log |-> <<>>] :
                        l \in BOOLEAN}
    /\ format = Idle

(* startup_report logs that it processes the list. *)
NicStart ==
    /\ network.pc = "start"
    /\ network' = [network EXCEPT !.pc = "loop", !.log = <<NicHeader>>]
    /\ UNCHANGED <<processVars, cpu, monitor, format>>

(* The list has one more entry and the loop handles it. *)
NicEntry ==
    /\ network.pc = "loop"
    /\ Len(network.network_interfaces) < MaxNics
    /\ \E interface \in Nics(network.linux) :
        LET step == NicIteration(network.name_to_properties, interface, network.linux) IN
        network' = [network EXCEPT
                        !.network_interfaces = Append(network.network_interfaces, interface),
                        !.name_to_properties = step.val,
                        !.panic = step.panic,
                        !.pc = IF step.panic = "" THEN "loop" ELSE "panic"]
    /\ UNCHANGED <<processVars, cpu, monitor, format>>

(* The list is over: the interfaces are reported in the order of their
   names, until a record cannot be. *)
NicReport ==
    /\ network.pc = "loop"
    /\ LET report == ReportRecords(network.name_to_properties, 1) IN
       network' = [network EXCEPT
                        !.pc = IF report.panic = "" THEN "done" ELSE "panic",
                        !.panic = report.panic,
                        !.log = network.log \o report.log]
    /\ UNCHANGED <<processVars, cpu, monitor, format>>

NextNetwork ==
    \/ NicStart
    \/ NicEntry
    \/ NicReport

SpecNetwork == InitNetwork /\ [][NextNetwork]_vars

(* The entries given so far for an interface name, in order. *)
EntriesOf(name) ==
    SelectSeq(network.network_interfaces, LAMBDA e : e.name = name)

NicFlagsOf(e) == <<e.is_up, e.is_loopback, e.is_multicast>>

(* The entry contradicts the entries given before it for the same name: a
   flag differs, its link type is known and differs from a known one, or it
   brings a second link-layer address. *)
Contradicts(last, prev) ==
    /\ prev # <<>>
    /\ \/ NicFlagsOf(last) # NicFlagsOf(prev[1])
       \/ \E i \in 1..Len(prev) :
            /\ LinkTypeCheck(prev[i], network.linux).some
            /\ LinkTypeCheck(last, network.linux).some
            /\ LinkTypeCheck(prev[i], network.linux) # LinkTypeCheck(last, network.linux)
       \/ /\ last.address = "Link"
          /\ \E i \in 1..Len(prev) : prev[i].address = "Link"

(* C24: while the report has not aborted, the record of every interface
   name has the three flags of the first entry given for the name, the one
   link type that the entries for the name make known (or none if none
   does), and a link-layer address exactly when one entry brought one, which
   at most one did; and the report has aborted as soon as the last entry
   given contradicts the entries before it for the same name. *)
NetworkConsistency ==
    /\ network.pc \in {"loop", "done"} =>
        \A n \in DOMAIN network.name_to_properties :
            LET es == EntriesOf(n)
                r == network.name_to_properties[n]
            IN  /\ es # <<>>
                /\ NicFlagsOf(r) = NicFlagsOf(es[1])
                /\ \A i \in 1..Len(es) :
                    /\ NicFlagsOf(es[i]) = NicFlagsOf(r)
                    /\ LinkTypeCheck(es[i], network.linux).some
                        => r.link_type = LinkTypeCheck(es[i], network.linux)
                /\ (\A i \in 1..Len(es) : ~LinkTypeCheck(es[i], network.linux).some)
                    => r.link_type = None
                /\ Cardinality({i \in 1..Len(es) : es[i].address = "Link"}) <= 1
                /\ r.link_address.some <=> \E i \in 1..Len(es) : es[i].address = "Link"
    /\ network.pc \in {"loop", "done", "panic"} /\ network.network_interfaces # <<>> =>
        LET all == network.network_interfaces
            last == all[Len(all)]
            prev == SelectSeq(SubSeq(all, 1, Len(all) - 1), LAMBDA e : e.name = last.name)
        IN  Contradicts(last, prev) => network.pc = "panic"

(* Two entries for one name were kept: the second made the link type known
   and one of them brought the link-layer address. *)
NetworkConsistencyWitness ==
    /\ network.pc = "done"
    /\ "eth0" \in DOMAIN network.name_to_properties
    /\ Len(EntriesOf("eth0")) = 2
    /\ ~LinkTypeCheck(EntriesOf("eth0")[1], network.linux).some
    /\ network.name_to_properties["eth0"].link_type.some
    /\ network.name_to_properties["eth0"].link_address.some
    /\ Len(network.name_to_properties["eth0"].ipv4_addresses) = 1

-----------------------------------------------------------------------------
(* format::display_information and main's format_information *)

(* A u64 quantity of bytes is the sequence of its digits in base 1000, the
   lowest first and the highest not 0 (the quantity 0 is <<0>>): 10^15 and
   more do not fit the integers of the model checker. Seven digits stay
   below 18 * 10^18 < 2^64. *)
LimbValues == {0, 1, 10, 100, 999}

Quantities ==
    {<<0>>} \cup
    UNION {{b \in [1..n -> LimbValues] : b[n] # 0 /\ (n = 7 => b[n] <= 17)} :
                n \in 1..(IF MaxLimbs < 7 THEN MaxLimbs ELSE 7)}

(* bytes / 1000 and bytes % 1000 *)
div1000(bytes) == IF Len(bytes) = 1 THEN <<0>> ELSE Tail(bytes)

mod1000(bytes) == bytes[1]

(* bytes / 10_u64.pow(power_of_10), for a power that is a multiple of 3 *)
RECURSIVE div_pow(_, _)
div_pow(bytes, power_of_10) ==
    IF power_of_10 = 0 THEN bytes ELSE div_pow(div1000(bytes), power_of_10 - 3)

(* An f64 that holds an integer, and the f64 -inf. *)
Finite(v) == [finite |-> TRUE, val |-> v]
NegInf == [finite |-> FALSE]

(* The number of decimal digits of bytes > 0, minus one. *)
Log10Floor(bytes) ==
    LET top == bytes[Len(bytes)] IN
    3 * (Len(bytes) - 1) + (IF top >= 100 THEN 2 ELSE IF top >= 10 THEN 1 ELSE 0)

(* What bytes > 0 lacks to be the next power of ten, when it is less than
   10^6, and 10^6 otherwise. *)
BelowPowerOfTen(bytes) ==
    LET n == Len(bytes) IN
    IF /\ n >= 5
       /\ bytes[n] \in {9, 99, 999}
       /\ \A i \in 3..(n - 1) : bytes[i] = 999
    THEN 1000000 - (1000 * bytes[2] + bytes[1])
    ELSE 1000000

(* How far below 10^k a u64 can be and still have the f64 logarithm k: the
   conversion to f64 (exact below 2^53) and log10 both round to the nearest
   f64, and the f64 next below k is about 1.8e-15 (k < 16) or 3.6e-15 less
   than k. Nothing below 10^15 - 2 is concerned. *)
Log10Slack(k) ==
    CASE k = 15 -> 2
      [] k = 16 -> 21
      [] k = 17 -> 407
      [] k = 18 -> 4160
      [] k = 19 -> 41984
      [] OTHER -> 0

(* (bytes as f64).log10().trunc(): -inf for 0, otherwise the number of
   decimal digits minus one, or one more when bytes is so close below a
   power of ten that its f64 logarithm is the exponent of that power. *)
log10_trunc(bytes) ==
    IF bytes = <<0>> THEN NegInf
    ELSE LET floor == Log10Floor(bytes) IN
         IF BelowPowerOfTen(bytes) <= Log10Slack(floor + 1)
         THEN Finite(floor + 1)
         ELSE Finite(floor)

(* The cast `as u8` saturates: -inf and negative values give 0. *)
as_u8(x) ==
    IF ~x.finite THEN 0
    ELSE IF x.val < 0 THEN 0
    ELSE IF x.val > 255 THEN 255
    ELSE x.val

(* "{:03}": three decimal digits, with leading zeros. *)
Pad3(n) == <<n \div 100, (n \div 10) % 10, n % 10>>

(* write_si, and the closure format_bytes of format_information: the output
   "{}.{:03} {}" as its three parts. *)
write_si(bytes, unit_magnitude, unit) ==
    [integral |-> div_pow(bytes, unit_magnitude),
     fractional |-> Pad3(mod1000(div_pow(bytes, unit_magnitude - 3))),
     unit |-> unit]

(* The match on the magnitude. *)
MatchMagnitude(bytes, magnitude) ==
    IF magnitude <= 2 THEN [integral |-> bytes, fractional |-> <<>>, unit |-> "B"]
    ELSE IF magnitude <= 5 THEN write_si(bytes, 3, "kB")
    ELSE IF magnitude <= 8 THEN write_si(bytes, 6, "MB")
    ELSE IF magnitude <= 11 THEN write_si(bytes, 9, "GB")
    ELSE write_si(bytes, 12, "TB")

(* The magnitude rounded up instead of truncated. *)
MagnitudeRoundedUp(bytes) ==
    IF bytes # <<0>> THEN as_u8(Finite(log10_trunc(bytes).val + 1)) ELSE 0

Magnitude(bytes) ==
    IF bytes # <<0>> THEN as_u8(log10_trunc(bytes)) ELSE 0

display_information(bytes) == MatchMagnitude(bytes, Magnitude(bytes))

(* format_information does not set 0 apart. *)
format_information(bytes) == MatchMagnitude(bytes, as_u8(log10_trunc(bytes)))

InitFormat ==
    /\ ProcessInit
    /\ cpu = Idle
    /\ monitor = Idle
    /\ network = Idle
    /\ format \in {[pc |-> "quantity", bytes |-> b] : b \in Quantities}

DisplayInformation ==
    /\ format.pc = "quantity"
    /\ format' = [pc |-> "displayed", bytes |-> format.bytes,
                  out |-> display_information(format.bytes)]
    /\ UNCHANGED <<processVars, cpu, monitor, network>>

FormatInformation ==
    /\ format.pc = "quantity"
    /\ format' = [pc |-> "formatted", bytes |-> format.bytes,
                  out |-> format_information(format.bytes)]
    /\ UNCHANGED <<processVars, cpu, monitor, network>>

NextFormat ==
    \/ DisplayInformation
    \/ FormatInformation

SpecFormat == InitFormat /\ [][NextFormat]_vars

(* The value of a quantity below 10^9, and the value of 10^9 and more as
   far as the unit of the claim needs it. *)
ValueOf(b) ==
    b[1] + (IF Len(b) >= 2 THEN 1000 * b[2] ELSE 0)
         + (IF Len(b) >= 3 THEN 1000000 * b[3] ELSE 0)

UnitOf(b) ==
    CASE Len(b) = 1 -> "B"
      [] Len(b) = 2 -> "kB"
      [] Len(b) = 3 -> "MB"
      [] Len(b) = 4 -> "GB"
      [] OTHER -> "TB"

UnitBytes(unit) ==
    CASE unit = "kB" -> 1000
      [] unit = "MB" -> 1000000

(* C25: display_information of b < 1000 is "b B"; of b >= 1000 it has the
   largest unit among kB, MB, GB, TB that is not above b, the integral part
   b div unit and the three digits of (b div (unit/1000)) mod 1000; so the
   integral part is in 1..999 when b < 10^15. Quantities below 10^9 are
   checked on their values, larger ones on their digits in base 1000. *)
InformationDisplay ==
    format.pc = "displayed" =>
        LET b == format.bytes
            out == format.out
        IN  /\ out.unit = UnitOf(b)
            /\ Len(b) = 1 =>
                out = [integral |-> b, fractional |-> <<>>, unit |-> "B"]
            /\ Len(b) \in {2, 3} =>
                LET unit == UnitBytes(out.unit)
                    frac == (ValueOf(b) \div (unit \div 1000)) % 1000
                IN  /\ ValueOf(b) >= unit
                    /\ out.unit = "kB" => ValueOf(b) < 1000000
                    /\ ValueOf(out.integral) = ValueOf(b) \div unit
                    /\ Len(out.integral) = 1
                    /\ out.fractional = <<frac \div 100, (frac \div 10) % 10, frac % 10>>
            /\ Len(b) >= 4 =>
                LET k == IF Len(b) = 4 THEN 3 ELSE 4 IN
                /\ out.integral = SubSeq(b, k + 1, Len(b))
                /\ out.fractional = <<b[k] \div 100, (b[k] \div 10) % 10, b[k] % 10>>
            /\ Len(b) \in 2..5 =>
                /\ Len(out.integral) = 1
                /\ out.integral[1] \in 1..999

(* 999 999 999 999 bytes are displayed as 999.999 GB, without rounding. *)
InformationDisplayWitness ==
    /\ format.pc = "displayed"
    /\ format.bytes = <<999, 999, 999, 999>>
    /\ format.out = [integral |-> <<999>>, fractional |-> <<9, 9, 9>>, unit |-> "GB"]

-----------------------------------------------------------------------------
(* The union of the children sets of the tree. *)
AllChildren == UNION {nodes[p].children : p \in DOMAIN nodes}

BatchPids == {PidAt(i) : i \in Indices}

(* C26: in a tree that from has returned, every root and every member of a
   children set is a key of the node table, and the lookup of log_subtree
   never panics on a missing key. *)
LookupNeverFails ==
    /\ Returned => roots \subseteq DOMAIN nodes /\ AllChildren \subseteq DOMAIN nodes
    /\ result # "key not found"

(* A report is complete in which log_subtree has looked up a root and a
   child, the child's record coming after the record of its parent. *)
LookupNeverFailsWitness ==
    /\ pc = "done"
    /\ roots # {}
    /\ \E i \in 2..Len(events) : events[i].pid \in AllChildren
    /\ \E i, j \in Indices :
        i < j /\ HasParent(InfoAt(j)) /\ ParentOf(InfoAt(j)) = PidAt(i)

(* C27: in a tree returned for a batch without duplicate pids, no root is in
   a children set, every key of the node table is a root or in a children
   set, and the keys are the pids of the batch and the pids that a readable
   parent field names. *)
TreePartition ==
    (Returned /\ NoDuplicatePid) =>
        /\ roots \cap AllChildren = {}
        /\ roots \cup AllChildren = DOMAIN nodes
        /\ DOMAIN nodes = BatchPids \cup NamedParents

(* A returned tree with a root that has a record, a root that is only named
   as a parent, and a child. *)
TreePartitionWitness ==
    /\ Returned
    /\ NoDuplicatePid
    /\ roots \cap BatchPids # {}
    /\ roots \ BatchPids # {}
    /\ AllChildren # {}

(* C29: the event of a root has no "parent pid" context; the event of any
   other node has a context whose innermost pid is a node that has it in its
   children set, whose outermost pid is a root, and in which every pid is in
   the children set of the one before it. *)
ParentContext ==
    \A e \in NodeEvents :
        IF e.pid \in roots THEN e.ctx = <<>>
        ELSE /\ e.ctx # <<>>
             /\ e.pid \in nodes[e.ctx[Len(e.ctx)]].children
             /\ e.ctx[1] \in roots
             /\ \A k \in 2..Len(e.ctx) : e.ctx[k] \in nodes[e.ctx[k - 1]].children

(* A grandchild was logged under its parent, itself under a root. *)
ParentContextWitness ==
    /\ pc = "done"
    /\ \E e \in NodeEvents : Len(e.ctx) = 2
    /\ \E e \in NodeEvents : e.ctx = <<>>

-----------------------------------------------------------------------------
(* C28: get_process_info on an enumerated process queries a prefix of
   parent_pid, name, exe, command, create_time; no query follows one that
   answered NoSuchProcess, ZombieProcess or Load, the queries stop short of
   create_time only on such an answer, and that answer alone decides the
   result: Err for Load, Ok with the pid and the error as outcome otherwise,
   whatever the later queries would have answered. *)
FirstFailureDecides ==
    (Called /\ probed.enum = "Ok") =>
        LET n == Len(probed.asked)
            last == probed.q[FieldOrder[n]]
        IN  /\ n \in 1..Len(FieldOrder)
            /\ probed.asked = SubSeq(FieldOrder, 1, n)
            /\ \A i \in 1..(n - 1) : i \notin Stoppers
            /\ n < Len(FieldOrder) => n \in Stoppers
            /\ n \in Stoppers =>
                LastReturn = IF last.err = "Load" THEN Err("Load")
                             ELSE Ok(<<probed.pid, Err(last.err)>>)
            /\ n \notin Stoppers => LastReturn.ok /\ LastReturn.val[2].ok

(* The name query reports a zombie and the command query would have failed
   to load: the call returns the Zombie outcome after two queries. *)
FirstFailureDecidesWitness ==
    /\ Called
    /\ probed.enum = "Ok"
    /\ probed.q.name = Err("ZombieProcess")
    /\ probed.q.command = Err("Load")
    /\ probed.asked = <<"parent_pid", "name">>
    /\ LastReturn = Ok(<<probed.pid, Err("ZombieProcess")>>)

====
